---- MODULE Spec2Model ----
(***************************************************************************)
(* Moop: reversible bit substrate (r_layer.c), HRIR runtime (hr_ir.c),     *)
(* minimal core (moop_core.c) and dissipative layer (d_layer.c).           *)
(*                                                                         *)
(* Each subsystem has its own variables and its own specification; the     *)
(* variables of the other subsystems stay at their idle value.             *)
(*   SpecGate : the four primitive gates called directly on a bit store    *)
(*   SpecR    : R_Runtime cells, execution history, checkpoints, rewind    *)
(*   SpecHR   : HRIR_Program + HRIR_Runtime step / undo / checkpoint       *)
(*   SpecCore : moop_core.c gates with history, restore, d_* operations    *)
(*   SpecD    : d_layer.c AND / OR / NAND / NOR / XOR over an R_Runtime    *)
(***************************************************************************)
EXTENDS Integers, Sequences, FiniteSets, TLC

VARIABLES
    g_qubits, g_calls,
    r_memory, r_next_cell_id, r_last, r_saved, r_qubits_at,
    hr_program, hr_runtime, hr_calls, hr_cp, hr_result, cc_last,
    mc_r, mc_last, mc_cp, mc_calls, mc_maybes,
    d_runtime, d_last, d_maybes, maybe_last,
    l3_runtime, l3_last, l3_sent, l3_ticks, l3_log,
    inv_origin, inv_cell, inv_inverse, inv_depth,
    uc_ast, uc_program,
    min_r, min_pc, min_last

gateVars == <<g_qubits, g_calls>>
rVars == <<r_memory, r_next_cell_id, r_last, r_saved, r_qubits_at>>
hrVars == <<hr_program, hr_runtime, hr_calls, hr_cp, hr_result, cc_last>>
mcVars == <<mc_r, mc_last, mc_cp, mc_calls, mc_maybes>>
dVars == <<d_runtime, d_last, d_maybes, maybe_last>>
l3Vars == <<l3_runtime, l3_last, l3_sent, l3_ticks, l3_log>>
invVars == <<inv_origin, inv_cell, inv_inverse, inv_depth>>
ucVars == <<uc_ast, uc_program>>
minVars == <<min_r, min_pc, min_last>>
vars == <<gateVars, rVars, hrVars, mcVars, dVars, l3Vars, invVars, ucVars, minVars>>

\* ------------------------------------------------------------------------
\* Bounds of the model
\* ------------------------------------------------------------------------

\* qubit_count passed to r_runtime_init for the directly driven gate store
GateQubits == 2

\* qubit_count of the R_Runtime that executes cells
RQubits == 2

\* number of r_create_cell calls and of r_save_checkpoint calls explored
MaxRCells == 1
MaxRCheckpoints == 2

\* number of hr_ir_add_cell calls, and cap on the runtime's rollbacks counter
MaxHRCells == 3
MaxHRRollbacks == 3

\* moop_core.c: qubits passed to r_init, and number of gate / d_* calls explored
CoreQubits == 2
MaxCoreCalls == 2

\* d_layer.c: qubit_count and ancilla_count passed to d_runtime_init
DQubits == 2
DAncilla == 2

\* l3_turchin.c: actors spawned, l3_send_message calls
MaxL3Actors == 2
MaxL3Sends == 3

\* l3_turchin.c, one mailbox: single l3_send_message calls, l3_tick calls
MaxMailboxSends == 5
MaxMailboxTicks == 4

\* l3_turchin.c, while loop: l3_send_message calls
MaxLoopSends == 4

\* ------------------------------------------------------------------------
\* Bit arrays
\* ------------------------------------------------------------------------

Bit == {0, 1}

\* calloc(qubit_count, 1): an array of n zero bytes, indexed from 0
ZeroBits(n) == [i \in 0 .. n - 1 |-> 0]

\* the C expression  x ^= 1  on a byte holding 0 or 1
Flip(x) == 1 - x

\* ------------------------------------------------------------------------
\* r_layer.c : the four primitive gates.  Each returns the bool result and
\* the bit array after the call.
\* ------------------------------------------------------------------------

r_execute_CCNOT(qubits, qubit_count, a, b, c) ==
    IF a >= qubit_count \/ b >= qubit_count \/ c >= qubit_count
    THEN [ok |-> FALSE, qubits |-> qubits]
    ELSE [ok |-> TRUE,
          qubits |-> IF qubits[a] # 0 /\ qubits[b] # 0
                     THEN [qubits EXCEPT ![c] = Flip(qubits[c])]
                     ELSE qubits]

r_execute_CNOT(qubits, qubit_count, a, b) ==
    IF a >= qubit_count \/ b >= qubit_count
    THEN [ok |-> FALSE, qubits |-> qubits]
    ELSE [ok |-> TRUE,
          qubits |-> IF qubits[a] # 0
                     THEN [qubits EXCEPT ![b] = Flip(qubits[b])]
                     ELSE qubits]

\* off-by-one bounds check: index qubit_count is accepted (the write lands
\* outside the array, the call reports success)
r_execute_NOT_offbyone(qubits, qubit_count, a) ==
    IF a > qubit_count
    THEN [ok |-> FALSE, qubits |-> qubits]
    ELSE [ok |-> TRUE,
          qubits |-> IF a < qubit_count
                     THEN [qubits EXCEPT ![a] = Flip(qubits[a])]
                     ELSE qubits]

r_execute_NOT(qubits, qubit_count, a) ==
    IF a >= qubit_count
    THEN [ok |-> FALSE, qubits |-> qubits]
    ELSE [ok |-> TRUE, qubits |-> [qubits EXCEPT ![a] = Flip(qubits[a])]]

r_execute_SWAP(qubits, qubit_count, a, b) ==
    IF a >= qubit_count \/ b >= qubit_count
    THEN [ok |-> FALSE, qubits |-> qubits]
    ELSE LET temp == qubits[a]
             q1 == [qubits EXCEPT ![a] = qubits[b]]
         IN  [ok |-> TRUE, qubits |-> [q1 EXCEPT ![b] = temp]]

\* r_read_qubit / r_write_qubit
r_read_qubit(qubits, qubit_count, index) ==
    IF index >= qubit_count THEN 0 ELSE qubits[index]

r_write_qubit(qubits, qubit_count, index, value) ==
    IF index >= qubit_count
    THEN [ok |-> FALSE, qubits |-> qubits]
    ELSE [ok |-> TRUE, qubits |-> [qubits EXCEPT ![index] = value % 2]]

\* ------------------------------------------------------------------------
\* SpecGate : a bit store of GateQubits bits driven by direct gate calls.
\* g_calls keeps the last two calls (gate, operands, result, bits before).
\* ------------------------------------------------------------------------

\* operand indices a caller may pass: every valid index and one past the end
GateIdx == 0 .. GateQubits

Remember(calls, c) ==
    IF Len(calls) < 2 THEN Append(calls, c) ELSE <<calls[2], c>>

GateCall(gate, args, res) ==
    /\ UNCHANGED <<minVars, ucVars, invVars, rVars, hrVars, mcVars, dVars, l3Vars>>
    /\ g_qubits' = res.qubits
    /\ g_calls' = Remember(g_calls,
                     [gate |-> gate, args |-> args, ok |-> res.ok, pre |-> g_qubits])

GateCCNOT ==
    \E a \in GateIdx, b \in GateIdx, c \in GateIdx :
        GateCall("CCNOT", <<a, b, c>>, r_execute_CCNOT(g_qubits, GateQubits, a, b, c))

GateCNOT ==
    \E a \in GateIdx, b \in GateIdx :
        GateCall("CNOT", <<a, b>>, r_execute_CNOT(g_qubits, GateQubits, a, b))

GateNOT ==
    \E a \in GateIdx :
        GateCall("NOT", <<a>>, r_execute_NOT(g_qubits, GateQubits, a))

GateSWAP ==
    \E a \in GateIdx, b \in GateIdx :
        GateCall("SWAP", <<a, b>>, r_execute_SWAP(g_qubits, GateQubits, a, b))

GateWrite ==
    \E a \in GateIdx, v \in Bit :
        GateCall("write", <<a, v>>, r_write_qubit(g_qubits, GateQubits, a, v))

GateNext == GateCCNOT \/ GateCNOT \/ GateNOT \/ GateSWAP \/ GateWrite

\* the four primitive gates, as opposed to r_write_qubit
IsGate(c) == c.gate \in {"CCNOT", "CNOT", "NOT", "SWAP"}

InRange(args, n) == \A i \in DOMAIN args : args[i] < n

\* the last two calls were the same gate with the same in-range operands
SameGateTwice ==
    /\ Len(g_calls) = 2
    /\ IsGate(g_calls[1])
    /\ g_calls[1].gate = g_calls[2].gate
    /\ g_calls[1].args = g_calls[2].args
    /\ InRange(g_calls[1].args, GateQubits)

\* C1: applying a primitive gate twice with the same in-range operands
\* leaves the bit array as it was before the first application.
C1_Involution == SameGateTwice => g_qubits = g_calls[1].pre

\* C7: a gate called with an operand index >= qubit_count returns false and
\* changes no bit.
C7_OutOfRangeNoMutation ==
    \A i \in DOMAIN g_calls :
        (IsGate(g_calls[i]) /\ ~InRange(g_calls[i].args, GateQubits))
            => /\ g_calls[i].ok = FALSE
               /\ (IF i = Len(g_calls) THEN g_qubits ELSE g_calls[i + 1].pre)
                     = g_calls[i].pre

\* a gate has been refused for an out-of-range operand while some bit is set
C7_Witness ==
    /\ Len(g_calls) > 0
    /\ IsGate(g_calls[Len(g_calls)])
    /\ ~InRange(g_calls[Len(g_calls)].args, GateQubits)
    /\ \E i \in DOMAIN g_qubits : g_qubits[i] = 1

\* ------------------------------------------------------------------------
\* r_layer.c : R_Memory with cells, execution history and checkpoints.
\* C arrays are sequences; At(s, i) is the C expression s[i].
\* ------------------------------------------------------------------------

At(s, i) == s[i + 1]

\* atoi on the argument strings the model uses: a decimal string gives its
\* number, a string that does not start with a digit gives 0
Atoi(str) ==
    IF \E n \in 0 .. 9 : ToString(n) = str
    THEN CHOOSE n \in 0 .. 9 : ToString(n) = str
    ELSE 0

\* r_runtime_init: zeroed bits, no cells, no checkpoints, empty history
r_runtime_init(qubit_count) ==
    [qubits |-> ZeroBits(qubit_count), qubit_count |-> qubit_count,
     cells |-> <<>>, checkpoints |-> <<>>,
     execution_history |-> <<>>, execution_count |-> 0]

\* r_create_cell: the new cell gets the next id and is appended to cells
r_create_cell(memory, next_id, opcode, args) ==
    [memory EXCEPT !.cells =
        Append(@, [id |-> next_id, opcode |-> opcode, args |-> args,
                   is_reversible |-> TRUE, executed |-> FALSE])]

\* execution_history[execution_count++] = cell   (cell given by its index)
PushHistory(memory, ci) ==
    LET n == memory.execution_count
        h == memory.execution_history
    IN  [memory EXCEPT
            !.execution_history =
                IF n < Len(h) THEN [h EXCEPT ![n + 1] = ci] ELSE Append(h, ci),
            !.execution_count = n + 1]

\* the gate a cell names, applied to the bits; no gate matches: success = false
CellGate(memory, cell) ==
    LET arg(i) == IF i <= Len(cell.args) THEN Atoi(cell.args[i]) ELSE 0
        q == memory.qubits
        n == memory.qubit_count
    IN  IF cell.opcode = "CCNOT" /\ Len(cell.args) = 3
        THEN r_execute_CCNOT(q, n, arg(1), arg(2), arg(3))
        ELSE IF cell.opcode = "CNOT" /\ Len(cell.args) = 2
        THEN r_execute_CNOT(q, n, arg(1), arg(2))
        ELSE IF cell.opcode = "NOT" /\ Len(cell.args) = 1
        THEN r_execute_NOT(q, n, arg(1))
        ELSE IF cell.opcode = "SWAP" /\ Len(cell.args) = 2
        THEN r_execute_SWAP(q, n, arg(1), arg(2))
        ELSE [ok |-> FALSE, qubits |-> q]

\* r_execute_cell on cells[ci]
r_execute_cell(memory, ci) ==
    LET cell == At(memory.cells, ci)
        g == CellGate(memory, cell)
    IN  IF cell.executed
        THEN [ok |-> FALSE, memory |-> memory]
        ELSE IF g.ok
        THEN [ok |-> TRUE,
              memory |-> PushHistory(
                  [memory EXCEPT !.qubits = g.qubits,
                                 !.cells[ci + 1].executed = TRUE], ci)]
        ELSE [ok |-> FALSE, memory |-> memory]

\* r_execute_inverse: the gates are their own inverse, execute again
r_execute_inverse(memory, ci) == r_execute_cell(memory, ci)

\* r_save_checkpoint: copy of the bits and of the execution index
r_save_checkpoint(memory) ==
    [memory EXCEPT !.checkpoints =
        Append(@, [id |-> Len(memory.checkpoints),
                   qubit_state |-> memory.qubits,
                   qubit_count |-> memory.qubit_count,
                   execution_index |-> memory.execution_count])]

\* r_restore_checkpoint that forgets to restore the execution index
r_restore_checkpoint_keepindex(memory, checkpoint) ==
    IF checkpoint.qubit_count # memory.qubit_count
    THEN [ok |-> FALSE, memory |-> memory]
    ELSE [ok |-> TRUE,
          memory |-> [memory EXCEPT !.qubits = checkpoint.qubit_state]]

\* r_restore_checkpoint without the qubit_count comparison: the live bits are
\* overwritten from the snapshot and the execution state is reset
r_restore_checkpoint_nowidth(memory, checkpoint) ==
    [ok |-> TRUE,
     memory |-> [memory EXCEPT
         !.qubits = [i \in DOMAIN memory.qubits |->
                        IF i < checkpoint.qubit_count
                        THEN checkpoint.qubit_state[i] ELSE memory.qubits[i]],
         !.execution_count = checkpoint.execution_index,
         !.cells = [i \in DOMAIN memory.cells |->
             IF i - 1 >= checkpoint.execution_index
             THEN [memory.cells[i] EXCEPT !.executed = FALSE]
             ELSE memory.cells[i]]]]

\* r_restore_checkpoint
r_restore_checkpoint(memory, checkpoint) ==
    IF checkpoint.qubit_count # memory.qubit_count
    THEN [ok |-> FALSE, memory |-> memory]
    ELSE [ok |-> TRUE,
          memory |-> [memory EXCEPT
              !.qubits = checkpoint.qubit_state,
              !.execution_count = checkpoint.execution_index,
              !.cells = [i \in DOMAIN memory.cells |->
                  IF i - 1 >= checkpoint.execution_index
                  THEN [memory.cells[i] EXCEPT !.executed = FALSE]
                  ELSE memory.cells[i]]]]

\* the loop of r_rewind_to_index: for (i = execution_count; i > index; i--)
RECURSIVE RewindLoop(_, _, _)
RewindLoop(memory, i, execution_index) ==
    IF i > execution_index
    THEN RewindLoop(
             r_execute_inverse(memory, At(memory.execution_history, i - 1)).memory,
             i - 1, execution_index)
    ELSE memory

r_rewind_to_index(memory, execution_index) ==
    IF execution_index > memory.execution_count
    THEN [ok |-> FALSE, memory |-> memory]
    ELSE [ok |-> TRUE,
          memory |-> [RewindLoop(memory, memory.execution_count, execution_index)
                         EXCEPT !.execution_count = execution_index]]

r_step_forward(memory) ==
    IF memory.execution_count >= Len(memory.cells)
    THEN [ok |-> FALSE, memory |-> memory]
    ELSE r_execute_cell(memory, memory.execution_count)

r_step_backward(memory) ==
    IF memory.execution_count = 0
    THEN [ok |-> FALSE, memory |-> memory]
    ELSE r_rewind_to_index(memory, memory.execution_count - 1)

\* ------------------------------------------------------------------------
\* SpecR : one R_Runtime driven through its API.
\*   r_last      the last call: name, argument, result, whether it changed
\*               the bits / the execution index, and the bits and the
\*               execution index before it
\*   r_saved     for each checkpoint, the bits and execution_count observed
\*               when r_save_checkpoint was called
\*   r_qubits_at for each k, the bits in the latest state with
\*               execution_count = k
\* ------------------------------------------------------------------------

\* opcode and argument strings handed to r_create_cell
\* (the last one cannot execute: its index is out of range)
RCellInputs ==
    { <<"NOT", <<"0">>>>, <<"CNOT", <<"0", "1">>>>,
      <<"NOT", <<ToString(RQubits)>>>> }

\* checkpoints taken from a runtime with another qubit_count
ForeignCheckpoints ==
    { [id |-> 0, qubit_state |-> q, qubit_count |-> RQubits + 1, execution_index |-> 0] :
        q \in {[i \in 0 .. RQubits |-> 1]} }

\* bookkeeping shared by the actions: the memory after the call, the record of
\* the call, and the bits seen at the new execution_count
RCall(op, arg, ok, memory) ==
    /\ UNCHANGED <<minVars, ucVars, invVars, gateVars, hrVars, mcVars, dVars, l3Vars>>
    /\ r_memory' = memory
    /\ r_last' = [op |-> op, arg |-> arg, ok |-> ok,
                  bits_changed |-> memory.qubits # r_memory.qubits,
                  index_changed |-> memory.execution_count # r_memory.execution_count,
                  pre_qubits |-> r_memory.qubits,
                  pre_count |-> r_memory.execution_count]
    /\ r_qubits_at' = [k \in DOMAIN r_qubits_at \cup {memory.execution_count} |->
                          IF k = memory.execution_count THEN memory.qubits
                          ELSE r_qubits_at[k]]

RCreateCell ==
    /\ Len(r_memory.cells) < MaxRCells
    /\ \E in \in RCellInputs :
        /\ RCall("r_create_cell", 0, TRUE,
                 r_create_cell(r_memory, r_next_cell_id, in[1], in[2]))
        /\ r_next_cell_id' = r_next_cell_id + 1
        /\ UNCHANGED r_saved

RStepForward ==
    LET res == r_step_forward(r_memory)
    IN  /\ RCall("r_step_forward", 0, res.ok, res.memory)
        /\ UNCHANGED <<r_next_cell_id, r_saved>>

RStepBackward ==
    LET res == r_step_backward(r_memory)
    IN  /\ RCall("r_step_backward", 0, res.ok, res.memory)
        /\ UNCHANGED <<r_next_cell_id, r_saved>>

RRewindToIndex ==
    \E k \in 0 .. r_memory.execution_count + 1 :
        LET res == r_rewind_to_index(r_memory, k)
        IN  /\ RCall("r_rewind_to_index", k, res.ok, res.memory)
            /\ UNCHANGED <<r_next_cell_id, r_saved>>

RSaveCheckpoint ==
    /\ Len(r_memory.checkpoints) < MaxRCheckpoints
    /\ RCall("r_save_checkpoint", 0, TRUE, r_save_checkpoint(r_memory))
    /\ r_saved' = Append(r_saved, [qubits |-> r_memory.qubits,
                                   execution_count |-> r_memory.execution_count])
    /\ UNCHANGED r_next_cell_id

\* restore one of the runtime's own checkpoints (arg: its position)
RRestoreCheckpoint ==
    \E c \in DOMAIN r_memory.checkpoints :
        LET res == r_restore_checkpoint(r_memory, r_memory.checkpoints[c])
        IN  /\ RCall("r_restore_checkpoint", c, res.ok, res.memory)
            /\ UNCHANGED <<r_next_cell_id, r_saved>>

\* restore a checkpoint that belongs to a store of another width
RRestoreForeign ==
    \E cp \in ForeignCheckpoints :
        LET res == r_restore_checkpoint(r_memory, cp)
        IN  /\ RCall("r_restore_foreign", 0, res.ok, res.memory)
            /\ UNCHANGED <<r_next_cell_id, r_saved>>

RNext ==
    \/ RCreateCell \/ RStepForward \/ RStepBackward \/ RRewindToIndex
    \/ RSaveCheckpoint \/ RRestoreCheckpoint \/ RRestoreForeign

\* C2: r_rewind_to_index(k) with k <= execution_count returns true, sets
\* execution_count to k and leaves the bits equal to the bits that existed
\* when execution_count was k.
C2_RewindRestoresBits ==
    [][(/\ r_last'.op = "r_rewind_to_index"
        /\ r_last'.arg <= r_memory.execution_count
        /\ r_last'.arg \in DOMAIN r_qubits_at)
          => /\ r_last'.ok
             /\ r_memory'.execution_count = r_last'.arg
             /\ r_memory'.qubits = r_qubits_at[r_last'.arg]]_vars

\* C5: restoring one of the runtime's own checkpoints returns true and makes
\* the bits and execution_count equal to their values when it was saved.
C5_RestoreOwnCheckpoint ==
    r_last.op = "r_restore_checkpoint"
        => /\ r_last.ok
           /\ r_memory.qubits = r_saved[r_last.arg].qubits
           /\ r_memory.execution_count = r_saved[r_last.arg].execution_count

\* a restore that changed both the bits and the execution index
C5_Witness ==
    /\ r_last.op = "r_restore_checkpoint"
    /\ r_last.bits_changed
    /\ r_last.index_changed

\* C9: restoring a checkpoint whose qubit_count differs from the store's
\* returns false and changes no bit, nor execution_count, nor any executed flag.
C9_MismatchedRestoreNoEffect ==
    [][r_last'.op = "r_restore_foreign"
          => /\ ~r_last'.ok
             /\ r_memory' = r_memory]_vars

\* a mismatched restore was refused in a state it would have changed
C9_Witness ==
    /\ r_last.op = "r_restore_foreign"
    /\ ~r_last.ok
    /\ r_memory.execution_count > 0
    /\ \E i \in DOMAIN r_memory.qubits : r_memory.qubits[i] = 1
    /\ \E i \in DOMAIN r_memory.cells : r_memory.cells[i].executed

\* C38: in every state reached through r_create_cell, r_step_forward,
\* r_step_backward, r_rewind_to_index, r_save_checkpoint and
\* r_restore_checkpoint, a cell is marked executed exactly when it is one of
\* the first execution_count entries of the execution history, and entry i
\* of that prefix is cells[i].
C38_HistoryPrefix ==
    /\ r_memory.execution_count <= Len(r_memory.execution_history)
    /\ \A i \in 0 .. r_memory.execution_count - 1 :
          At(r_memory.execution_history, i) = i
    /\ \A ci \in 0 .. Len(r_memory.cells) - 1 :
          At(r_memory.cells, ci).executed
              <=> \E i \in 0 .. r_memory.execution_count - 1 :
                     At(r_memory.execution_history, i) = ci

\* C33: whenever r_step_backward succeeds, an r_step_forward called right
\* after it succeeds too and restores the execution_count and the bits that
\* held before the step back (d_step_backward and d_step_forward are these
\* two calls on the D runtime's R runtime).
C33_BackwardForward ==
    [][(/\ r_last.op = "r_step_backward"
        /\ r_last.ok
        /\ r_last'.op = "r_step_forward")
          => /\ r_last'.ok
             /\ r_memory'.execution_count = r_last.pre_count
             /\ r_memory'.qubits = r_last.pre_qubits]_vars

\* ------------------------------------------------------------------------
\* hr_ir.c : HRIR cells, program and runtime.
\* A null pointer (inverse, result) is the empty sequence, a non-null one a
\* one-element sequence.
\* ------------------------------------------------------------------------

NULL == <<>>

\* hr_ir_create_cell: calloc'ed cell (id 0), reversible by default
hr_ir_create_cell(opcode, args) ==
    [id |-> 0, opcode |-> opcode, args |-> args, is_reversible |-> TRUE,
     inverse |-> NULL, executed |-> FALSE, result |-> NULL]

\* hr_ir_from_d_term_operation: a cell marked not reversible
hr_ir_from_d_term_operation(operation, args) ==
    [hr_ir_create_cell(operation, args) EXCEPT !.is_reversible = FALSE]

\* hr_ir_from_send_operation: NULL for an unknown selector, else the cell
\* of the selector's opcode
hr_ir_from_send_operation(target, selector, args) ==
    IF selector = "add" THEN <<hr_ir_create_cell("add", args)>>
    ELSE IF selector = "subtract" THEN <<hr_ir_create_cell("subtract", args)>>
    ELSE IF selector = "multiply" THEN <<hr_ir_create_cell("multiply", args)>>
    ELSE IF selector = "divide" THEN <<hr_ir_create_cell("divide", args)>>
    ELSE IF selector = "output" THEN <<hr_ir_create_cell("print", args)>>
    ELSE NULL

\* hr_ir_create_inverse whose table sends divide to divide
hr_ir_create_inverse_divide(cell) ==
    IF ~cell.is_reversible THEN NULL
    ELSE IF cell.opcode = "add" THEN <<hr_ir_create_cell("subtract", cell.args)>>
    ELSE IF cell.opcode = "subtract" THEN <<hr_ir_create_cell("add", cell.args)>>
    ELSE IF cell.opcode = "multiply" THEN <<hr_ir_create_cell("divide", cell.args)>>
    ELSE IF cell.opcode = "divide" THEN <<hr_ir_create_cell("divide", cell.args)>>
    ELSE NULL

\* hr_ir_create_inverse: NULL, or the cell of the inverse opcode
hr_ir_create_inverse(cell) ==
    IF ~cell.is_reversible THEN NULL
    ELSE IF cell.opcode = "add" THEN <<hr_ir_create_cell("subtract", cell.args)>>
    ELSE IF cell.opcode = "subtract" THEN <<hr_ir_create_cell("add", cell.args)>>
    ELSE IF cell.opcode = "multiply" THEN <<hr_ir_create_cell("divide", cell.args)>>
    ELSE IF cell.opcode = "divide" THEN <<hr_ir_create_cell("multiply", cell.args)>>
    ELSE NULL

\* hr_ir_create_program
hr_ir_create_program == [cells |-> <<>>, pc |-> 0, next_id |-> 1]

\* hr_ir_create_runtime
hr_ir_create_runtime == [checkpoint |-> 0, steps_executed |-> 0, rollbacks |-> 0]

\* hr_ir_add_cell that does not advance next_id
hr_ir_add_cell_sameid(program, cell) ==
    LET c1 == [cell EXCEPT !.id = program.next_id]
        c2 == IF c1.is_reversible /\ c1.inverse = NULL
              THEN [c1 EXCEPT !.inverse = hr_ir_create_inverse(c1)]
              ELSE c1
    IN  [program EXCEPT !.cells = Append(@, c2)]

\* hr_ir_add_cell: assign the next id, append, derive a missing inverse
hr_ir_add_cell(program, cell) ==
    LET c1 == [cell EXCEPT !.id = program.next_id]
        c2 == IF c1.is_reversible /\ c1.inverse = NULL
              THEN [c1 EXCEPT !.inverse = hr_ir_create_inverse(c1)]
              ELSE c1
    IN  [program EXCEPT !.cells = Append(@, c2), !.next_id = @ + 1]

\* hr_ir_step that does not count the step
hr_ir_step_nocount(s) ==
    IF s.program.pc >= Len(s.program.cells)
    THEN [ok |-> FALSE, s |-> s]
    ELSE [ok |-> TRUE,
          s |-> [s EXCEPT !.program.cells[s.program.pc + 1].executed = TRUE,
                          !.program.cells[s.program.pc + 1].result = <<"executed">>,
                          !.program.pc = @ + 1]]

\* hr_ir_step on s = [program, runtime]
hr_ir_step(s) ==
    IF s.program.pc >= Len(s.program.cells)
    THEN [ok |-> FALSE, s |-> s]
    ELSE [ok |-> TRUE,
          s |-> [s EXCEPT !.program.cells[s.program.pc + 1].executed = TRUE,
                          !.program.cells[s.program.pc + 1].result = <<"executed">>,
                          !.runtime.steps_executed = @ + 1,
                          !.program.pc = @ + 1]]

\* hr_ir_run: step until a step fails
RECURSIVE RunLoop(_)
RunLoop(s) == IF hr_ir_step(s).ok THEN RunLoop(hr_ir_step(s).s) ELSE s

hr_ir_run(s) ==
    LET t == RunLoop(s)
    IN  [ok |-> t.program.pc >= Len(t.program.cells), s |-> t]

\* hr_ir_undo that moves pc back by two cells where it can
hr_ir_undo_twice(s) ==
    IF s.program.pc = 0
    THEN [ok |-> FALSE, s |-> s]
    ELSE [ok |-> TRUE,
          s |-> [s EXCEPT !.program.pc = IF @ >= 2 THEN @ - 2 ELSE @ - 1,
                          !.program.cells[s.program.pc].executed = FALSE,
                          !.program.cells[s.program.pc].result = NULL,
                          !.runtime.steps_executed = @ - 1,
                          !.runtime.rollbacks = @ + 1]]

\* hr_ir_undo that counts the rollback before it checks pc
hr_ir_undo_countfirst(s) ==
    IF s.program.pc = 0
    THEN [ok |-> FALSE, s |-> [s EXCEPT !.runtime.rollbacks = @ + 1]]
    ELSE [ok |-> TRUE,
          s |-> [s EXCEPT !.program.pc = @ - 1,
                          !.program.cells[s.program.pc].executed = FALSE,
                          !.program.cells[s.program.pc].result = NULL,
                          !.runtime.steps_executed = @ - 1,
                          !.runtime.rollbacks = @ + 1]]

\* hr_ir_undo: pc--, then the cell at the new pc (sequence position pc, old
\* value) loses executed and result
hr_ir_undo(s) ==
    IF s.program.pc = 0
    THEN [ok |-> FALSE, s |-> s]
    ELSE [ok |-> TRUE,
          s |-> [s EXCEPT !.program.pc = @ - 1,
                          !.program.cells[s.program.pc].executed = FALSE,
                          !.program.cells[s.program.pc].result = NULL,
                          !.runtime.steps_executed = @ - 1,
                          !.runtime.rollbacks = @ + 1]]

\* hr_ir_checkpoint
hr_ir_checkpoint(s) ==
    [ok |-> TRUE, s |-> [s EXCEPT !.runtime.checkpoint = s.program.pc]]

\* hr_ir_rollback whose loop also runs when pc equals the checkpoint
RECURSIVE hr_ir_rollback_offbyone(_)
hr_ir_rollback_offbyone(s) ==
    IF s.program.pc >= s.runtime.checkpoint
    THEN IF hr_ir_undo(s).ok THEN hr_ir_rollback_offbyone(hr_ir_undo(s).s)
         ELSE [ok |-> FALSE, s |-> s]
    ELSE [ok |-> TRUE, s |-> s]

\* hr_ir_rollback: while (pc > checkpoint) if (!undo) return false
RECURSIVE hr_ir_rollback(_)
hr_ir_rollback(s) ==
    IF s.program.pc > s.runtime.checkpoint
    THEN IF hr_ir_undo(s).ok THEN hr_ir_rollback(hr_ir_undo(s).s)
         ELSE [ok |-> FALSE, s |-> s]
    ELSE [ok |-> TRUE, s |-> s]

\* ------------------------------------------------------------------------
\* SpecHR : one runtime created over a fresh program.
\*   hr_calls  the last two calls: name, result, program and runtime before
\*   hr_cp     what happened since the last hr_ir_checkpoint: phase "steps"
\*             (only successful steps), "rolled" (those, then one rollback),
\*             "other"; with the pc and cells at the checkpoint.  steps_executed is a
\*             size_t; it equals pc here and never wraps.
\* ------------------------------------------------------------------------

HRArgs == <<"5", "3">>

HRCellInputs ==
    { hr_ir_from_send_operation("calc", selector, HRArgs)[1] : selector \in {"add", "output"} }
    \cup { hr_ir_from_d_term_operation(op, HRArgs) : op \in {"print"} }

HRState == [program |-> hr_program, runtime |-> hr_runtime]

HRCall(op, ok, s, phase) ==
    /\ UNCHANGED <<minVars, ucVars, invVars, gateVars, rVars, mcVars, dVars, l3Vars, hr_result, cc_last>>
    /\ hr_program' = s.program
    /\ hr_runtime' = s.runtime
    /\ hr_calls' = Remember(hr_calls, [op |-> op, ok |-> ok, pre |-> HRState])
    /\ hr_cp' = IF op = "hr_ir_checkpoint"
                THEN [phase |-> "steps", pc |-> hr_program.pc, cells |-> hr_program.cells]
                ELSE [hr_cp EXCEPT !.phase = phase]

HRAddCell ==
    /\ Len(hr_program.cells) < MaxHRCells
    /\ \E cell \in HRCellInputs :
        HRCall("hr_ir_add_cell", TRUE,
               [HRState EXCEPT !.program = hr_ir_add_cell(hr_program, cell)], "other")

HRStep ==
    LET res == hr_ir_step(HRState)
    IN  HRCall("hr_ir_step", res.ok, res.s,
               IF res.ok /\ hr_cp.phase = "steps" THEN "steps" ELSE "other")

HRRun ==
    LET res == hr_ir_run(HRState)
    IN  HRCall("hr_ir_run", res.ok, res.s, "other")

HRUndo ==
    /\ hr_runtime.rollbacks < MaxHRRollbacks
    /\ LET res == hr_ir_undo(HRState)
       IN  HRCall("hr_ir_undo", res.ok, res.s, "other")

HRCheckpoint ==
    LET res == hr_ir_checkpoint(HRState)
    IN  HRCall("hr_ir_checkpoint", res.ok, res.s, "steps")

HRRollback ==
    /\ hr_runtime.rollbacks + hr_program.pc <= MaxHRRollbacks
    /\ LET res == hr_ir_rollback(HRState)
       IN  HRCall("hr_ir_rollback", res.ok, res.s,
                  IF hr_cp.phase = "steps" THEN "rolled" ELSE "other")

HRNext == HRAddCell \/ HRStep \/ HRRun \/ HRUndo \/ HRCheckpoint \/ HRRollback

\* executed flag and result of every cell
Exec(program) == [i \in DOMAIN program.cells |->
                    <<program.cells[i].executed, program.cells[i].result>>]

UndoThenStep ==
    /\ Len(hr_calls) = 2
    /\ hr_calls[1].op = "hr_ir_undo"
    /\ hr_calls[2].op = "hr_ir_step"

\* C18: the ids of the cells of the program are strictly increasing with
\* the cell index, the first being 1 (so they are pairwise distinct), and
\* no call changes the id of a cell that is in the program.
C18_CellIds ==
    [][/\ \A i \in DOMAIN hr_program'.cells :
             /\ i = 1 => hr_program'.cells[i].id = 1
             /\ \A j \in DOMAIN hr_program'.cells :
                    i < j => hr_program'.cells[i].id < hr_program'.cells[j].id
       /\ \A i \in DOMAIN hr_program.cells :
             /\ i \in DOMAIN hr_program'.cells
             /\ hr_program'.cells[i].id = hr_program.cells[i].id]_vars

\* a third cell has been appended to a program whose first cells had been
\* executed
C18_Witness ==
    /\ Len(hr_program.cells) = 3
    /\ hr_program.pc = 2
    /\ hr_calls[Len(hr_calls)].op = "hr_ir_add_cell"

\* C19: every cell of the program that is marked reversible has an inverse.
C19_ReversibleHasInverse ==
    \A i \in DOMAIN hr_program.cells :
        hr_program.cells[i].is_reversible => hr_program.cells[i].inverse # NULL

\* C3 as stated: from any reachable state, hr_ir_undo then hr_ir_step leaves
\* pc and the executed state of every cell as they were before the two calls.
C3_UndoStepAnyState ==
    UndoThenStep
        => /\ hr_program.pc = hr_calls[1].pre.program.pc
           /\ Exec(hr_program) = Exec(hr_calls[1].pre.program)

\* C3 amended: from any reachable state in which hr_ir_undo succeeds (pc > 0),
\* hr_ir_undo then hr_ir_step succeeds and leaves pc and the executed state
\* of every cell as they were before the two calls.
C3_UndoStepRoundTrip ==
    (UndoThenStep /\ hr_calls[1].ok)
        => /\ hr_calls[2].ok
           /\ hr_program.pc = hr_calls[1].pre.program.pc
           /\ Exec(hr_program) = Exec(hr_calls[1].pre.program)

\* undo then step in the middle of a program
C3_Witness ==
    /\ UndoThenStep
    /\ hr_calls[1].ok
    /\ hr_calls[1].pre.program.pc = 2
    /\ Len(hr_program.cells) = 3

\* C4: hr_ir_checkpoint at pc = k, then m >= 0 successful hr_ir_step calls,
\* then hr_ir_rollback: it succeeds, pc = k, every cell at index >= k is not
\* executed and has no result, every cell at index < k is unchanged.
C4_CheckpointRollback ==
    hr_cp.phase = "rolled"
        => /\ hr_calls[Len(hr_calls)].ok
           /\ hr_program.pc = hr_cp.pc
           /\ Len(hr_program.cells) = Len(hr_cp.cells)
           /\ \A i \in DOMAIN hr_program.cells :
                IF i - 1 >= hr_cp.pc
                THEN ~hr_program.cells[i].executed /\ hr_program.cells[i].result = NULL
                ELSE hr_program.cells[i] = hr_cp.cells[i]

\* a rollback over two steps to a checkpoint taken at pc = 1
C4_Witness ==
    /\ hr_cp.phase = "rolled"
    /\ hr_cp.pc = 1
    /\ hr_calls[Len(hr_calls)].pre.program.pc = 3

\* C8: hr_ir_step at pc >= cell_count and hr_ir_undo at pc = 0 return false
\* and change nothing of the program and the runtime; a successful undo
\* decrements pc by one and clears executed and result of exactly the cell at
\* the new pc.
C8_StepUndoFailures ==
    \A n \in DOMAIN hr_calls :
        LET c == hr_calls[n]
            pre == c.pre
            post == IF n = Len(hr_calls) THEN HRState ELSE hr_calls[n + 1].pre
        IN  /\ (c.op = "hr_ir_step" /\ pre.program.pc >= Len(pre.program.cells))
                  => ~c.ok /\ post = pre
            /\ (c.op = "hr_ir_undo" /\ pre.program.pc = 0)
                  => ~c.ok /\ post = pre
            /\ (c.op = "hr_ir_undo" /\ c.ok)
                  => /\ post.program.pc = pre.program.pc - 1
                     /\ Len(post.program.cells) = Len(pre.program.cells)
                     /\ \A i \in DOMAIN post.program.cells :
                          IF i - 1 = post.program.pc
                          THEN /\ ~post.program.cells[i].executed
                               /\ post.program.cells[i].result = NULL
                          ELSE post.program.cells[i] = pre.program.cells[i]

\* a step refused at the end of the program, then a successful undo
C8_Witness ==
    /\ Len(hr_calls) = 2
    /\ hr_calls[1].op = "hr_ir_step" /\ ~hr_calls[1].ok
    /\ hr_calls[1].pre.program.pc = 2
    /\ hr_calls[2].op = "hr_ir_undo" /\ hr_calls[2].ok

C37_WitnessRollback ==
    /\ hr_calls # <<>>
    /\ hr_calls[Len(hr_calls)].op = "hr_ir_rollback"
    /\ hr_calls[Len(hr_calls)].pre.program.pc = 3
    /\ hr_program.pc = 1

\* C32: whenever hr_ir_rollback returns true, pc equals the checkpoint the
\* runtime records, from every reachable state (also those where hr_ir_undo
\* has moved pc below the checkpoint).
C32_RollbackReachesCheckpoint ==
    (hr_calls # <<>> /\ hr_calls[Len(hr_calls)].op = "hr_ir_rollback"
                     /\ hr_calls[Len(hr_calls)].ok)
        => hr_program.pc = hr_runtime.checkpoint

\* ------------------------------------------------------------------------
\* SpecHRInverse : hr_ir_create_inverse applied to a cell, then to the
\* inverse it returned, and so on.
\*   inv_origin   the cell the chain started from (NULL before the first call)
\*   inv_cell     the argument of the last call
\*   inv_inverse  what the last call returned
\*   inv_depth    the number of calls of the chain
\* ------------------------------------------------------------------------

\* length of a chain of derived inverses
MaxInverseDepth == 2

\* opcodes of hr_ir.h: the four of the table and others
InverseOpcodes == {"add", "subtract", "multiply", "divide", "equal", "print", "store"}

InverseArgs == {<<>>, <<"5">>, <<"5", "3">>, <<"3", "5">>, <<"10", "5">>, <<"result", "2">>}

InverseCellInputs ==
    { [hr_ir_create_cell(opcode, args) EXCEPT !.is_reversible = rev] :
        opcode \in InverseOpcodes, args \in InverseArgs, rev \in BOOLEAN }

InverseCall(origin, cell, depth) ==
    /\ inv_origin' = origin
    /\ inv_cell' = <<cell>>
    /\ inv_inverse' = hr_ir_create_inverse(cell)
    /\ inv_depth' = depth
    /\ UNCHANGED <<minVars, ucVars, gateVars, rVars, hrVars, mcVars, dVars, l3Vars>>

\* hr_ir_create_inverse of a cell made by the caller
InverseOfCell ==
    \E cell \in InverseCellInputs : InverseCall(<<cell>>, cell, 1)

\* hr_ir_create_inverse of the inverse the last call returned
InverseOfInverse ==
    /\ inv_inverse # NULL
    /\ inv_depth < MaxInverseDepth
    /\ InverseCall(inv_origin, inv_inverse[1], inv_depth + 1)

InverseNext == InverseOfCell \/ InverseOfInverse

\* the table of the claim
InverseTable ==
    [add |-> "subtract", subtract |-> "add", multiply |-> "divide", divide |-> "multiply"]

\* C35: hr_ir_create_inverse of a reversible cell whose opcode is add,
\* subtract, multiply or divide is a cell with the opcode subtract, add,
\* divide, multiply and the same operands; of any other cell it is NULL; the
\* inverse of a derived inverse has the opcode and operands of the original.
C35_InverseTable ==
    inv_cell # NULL =>
        /\ IF inv_cell[1].is_reversible /\ inv_cell[1].opcode \in DOMAIN InverseTable
           THEN /\ inv_inverse # NULL
                /\ inv_inverse[1].opcode = InverseTable[inv_cell[1].opcode]
                /\ inv_inverse[1].args = inv_cell[1].args
           ELSE inv_inverse = NULL
        /\ (inv_depth % 2 = 0)
             => /\ inv_inverse # NULL
                /\ inv_inverse[1].opcode = inv_origin[1].opcode
                /\ inv_inverse[1].args = inv_origin[1].args

\* the inverse of the inverse derived from a divide cell
C35_Witness ==
    /\ inv_depth = 2
    /\ inv_origin[1].opcode = "divide"
    /\ inv_origin[1].args = <<"3", "5">>
    /\ inv_cell[1].opcode = "multiply"
    /\ inv_inverse # NULL

\* no inverse for a cell that is not reversible, nor for another opcode
C35_WitnessNone ==
    /\ inv_cell # NULL
    /\ inv_inverse = NULL
    /\ \/ ~inv_cell[1].is_reversible /\ inv_cell[1].opcode = "add"
       \/ inv_cell[1].is_reversible /\ inv_cell[1].opcode = "store"

\* ------------------------------------------------------------------------
\* surface_parser.c, simple_parser.c, unified_compiler.c : from the send
\* statements of a source text to the cells of an HRIR program.
\* ------------------------------------------------------------------------

\* enum OperationType
OP_R_TERM == 0
OP_D_TERM == 1
OP_S_TERM == 2

\* is_known_d_term_operation
is_known_d_term_operation(target, selector) ==
    \/ target \in {"io", "file", "network", "system"}
    \/ selector \in {"fork", "spawn", "kill", "exit"}

\* classify_operation
classify_operation(target, selector, tag) ==
    IF tag.is_tagged THEN OP_D_TERM
    ELSE IF is_known_d_term_operation(target, selector) THEN OP_D_TERM
    ELSE OP_R_TERM

\* parse_surface_simple on a text of sends "target -> selector": one
\* STMT_SEND statement per send, without arguments, untagged, of type
\* OP_R_TERM
parse_surface_simple(source) ==
    [i \in DOMAIN source |->
        [target |-> source[i][1], selector |-> source[i][2], arguments |-> <<>>,
         tag |-> [is_tagged |-> FALSE, tag_type |-> NULL], type |-> OP_R_TERM]]

\* hr_ir_set_cell_meta, the line number
hr_ir_set_cell_meta(cell, line_number) == [line_number |-> line_number] @@ cell

\* the loop of generate_hrir_json from statement i (0-based) on
RECURSIVE GenerateFrom(_, _, _)
GenerateFrom(program, statements, i) ==
    IF i >= Len(statements) THEN program
    ELSE LET send == At(statements, i)
             made == hr_ir_from_send_operation(send.target, send.selector, send.arguments)
         IN  IF made = NULL THEN GenerateFrom(program, statements, i + 1)
             ELSE LET cell == hr_ir_set_cell_meta(made[1], i + 1)
                      marked == IF send.type = 0
                                THEN [cell EXCEPT !.is_reversible = FALSE]
                                ELSE cell
                  IN  GenerateFrom(hr_ir_add_cell(program, marked), statements, i + 1)

\* generate_hrir_json: the program that is serialized
generate_hrir_json(statements) == GenerateFrom(hr_ir_create_program, statements, 0)

\* ------------------------------------------------------------------------
\* SpecCompile : source texts compiled one after the other.
\*   uc_ast      the statements parsed from the last source text
\*   uc_program  NULL, or the HRIR program generated from them
\* ------------------------------------------------------------------------

\* number of sends of a source text
MaxSends == 2

CompileTargets == {"math", "io", "system"}
CompileSelectors == {"add", "divide", "output", "spawn"}

CompileSources ==
    UNION { [1 .. n -> CompileTargets \X CompileSelectors] : n \in 0 .. MaxSends }

Compile ==
    /\ \E source \in CompileSources :
        /\ uc_ast' = parse_surface_simple(source)
        /\ uc_program' = <<generate_hrir_json(parse_surface_simple(source))>>
    /\ UNCHANGED <<minVars, gateVars, rVars, hrVars, mcVars, dVars, l3Vars, invVars>>

CompileNext == Compile

\* C36: every cell the compiler made from a send is marked not reversible
\* exactly when the send is classified irreversible (tagged, or target in
\* {io, file, network, system}, or selector in {fork, spawn, kill, exit}),
\* and reversible when the send is classified reversible.
C36_CellFollowsClassification ==
    uc_program # NULL =>
        \A k \in DOMAIN uc_program[1].cells :
            LET cell == uc_program[1].cells[k]
                send == uc_ast[cell.line_number]
            IN  cell.is_reversible
                    = (classify_operation(send.target, send.selector, send.tag) # OP_D_TERM)

\* ------------------------------------------------------------------------
\* r_layer_minimal.c : Runtime r = [qubits, cells, cell_count].  cells holds
\* every slot written so far (the slots at cell_count and above keep what was
\* written to them).  The gates check no index: the operands of the model
\* are in range.  A Cell is <<gate, a, b, c>>.
\* ------------------------------------------------------------------------

\* init
min_init(qubits) == [qubits |-> ZeroBits(qubits), cells |-> <<>>, cell_count |-> 0]

\* r->cells[r->cell_count++] = cell
MinRecord(r, cell) ==
    [r EXCEPT !.cells = IF r.cell_count < Len(r.cells)
                        THEN [r.cells EXCEPT ![r.cell_count + 1] = cell]
                        ELSE Append(r.cells, cell),
              !.cell_count = @ + 1]

exec_CCNOT(r, a, b, c) ==
    MinRecord([r EXCEPT !.qubits[c] = IF r.qubits[a] # 0 /\ r.qubits[b] # 0
                                      THEN 1 - @ ELSE @],
              <<0, a, b, c>>)

exec_CNOT(r, a, b) ==
    MinRecord([r EXCEPT !.qubits[b] = IF r.qubits[a] # 0 THEN 1 - @ ELSE @],
              <<1, a, b, 0>>)

exec_NOT(r, a) ==
    MinRecord([r EXCEPT !.qubits[a] = 1 - @], <<2, a, 0, 0>>)

exec_SWAP(r, a, b) ==
    MinRecord([r EXCEPT !.qubits[a] = r.qubits[b], !.qubits[b] = r.qubits[a]],
              <<3, a, b, 0>>)

\* exec_cell: the gate function of the cell's gate number
exec_cell(r, c) ==
    IF c[1] = 0 THEN exec_CCNOT(r, c[2], c[3], c[4])
    ELSE IF c[1] = 1 THEN exec_CNOT(r, c[2], c[3])
    ELSE IF c[1] = 2 THEN exec_NOT(r, c[2])
    ELSE IF c[1] = 3 THEN exec_SWAP(r, c[2], c[3])
    ELSE r

\* exec_cell(r, r->cells[--r->cell_count])
MinBack(r) == exec_cell([r EXCEPT !.cell_count = @ - 1], r.cells[r.cell_count])

\* step_back
step_back(r) == IF r.cell_count > 0 THEN MinBack(r) ELSE r

\* ------------------------------------------------------------------------
\* SpecMinimal : one Runtime of r_layer_minimal.c.  restore is a loop: the
\* runtime enters it, runs its body once per step and leaves it when
\* cell_count <= checkpoint.
\*   min_pc    "idle", or inside restore with its argument
\*   min_last  the last call that returned, cell_count before it and its
\*             argument
\* ------------------------------------------------------------------------

MinQubits == 3
MaxMinCells == 2

MinIdx == 0 .. MinQubits - 1

MinCellInputs ==
    {<<0, 0, 1, 2>>, <<1, 0, 1, 0>>, <<3, 0, 1, 0>>} \cup {<<2, a, 0, 0>> : a \in MinIdx}

MinIdle == [at |-> "idle", checkpoint |-> 0]

MinCall(op, arg, r, pc) ==
    /\ min_r' = r
    /\ min_pc' = pc
    /\ min_last' = IF pc.at = "idle"
                   THEN [op |-> op, arg |-> arg, pre_count |-> min_r.cell_count]
                   ELSE min_last
    /\ UNCHANGED <<gateVars, rVars, hrVars, mcVars, dVars, l3Vars, invVars, ucVars>>

\* exec_CCNOT, exec_CNOT, exec_NOT, exec_SWAP called through exec_cell
MinExec ==
    /\ min_pc.at = "idle"
    /\ min_r.cell_count < MaxMinCells
    /\ \E c \in MinCellInputs : MinCall("exec_cell", 0, exec_cell(min_r, c), MinIdle)

MinStepBack ==
    /\ min_pc.at = "idle"
    /\ MinCall("step_back", 0, step_back(min_r), MinIdle)

\* restore(checkpoint) is called with a value checkpoint() returned earlier:
\* checkpoint <= cell_count
MinRestoreEnter ==
    /\ min_pc.at = "idle"
    /\ \E checkpoint \in 0 .. min_r.cell_count :
        MinCall("restore", checkpoint, min_r, [at |-> "restore", checkpoint |-> checkpoint])

\* one iteration of the loop of restore
MinRestoreBody ==
    /\ min_pc.at = "restore"
    /\ min_r.cell_count > min_pc.checkpoint
    /\ MinCall("restore", min_pc.checkpoint, MinBack(min_r), min_pc)

\* the loop condition fails and restore returns
MinRestoreReturn ==
    /\ min_pc.at = "restore"
    /\ min_r.cell_count <= min_pc.checkpoint
    /\ MinCall("restore", min_pc.checkpoint, min_r, MinIdle)

MinNext ==
    MinExec \/ MinStepBack \/ MinRestoreEnter \/ MinRestoreBody \/ MinRestoreReturn

\* C40: restore(checkpoint) terminates for every history with
\* cell_count >= checkpoint and leaves cell_count = checkpoint, and step_back
\* reduces cell_count by exactly one when it is positive.
C40_RestoreTerminates ==
    /\ [](min_pc.at = "restore"
            => <>(min_pc.at = "idle" /\ min_last.op = "restore"
                  /\ min_r.cell_count = min_last.arg))
    /\ []((min_last.op = "step_back" /\ min_last.pre_count > 0)
            => min_r.cell_count = min_last.pre_count - 1)

\* ------------------------------------------------------------------------
\* moop_core.c : minimal R layer.  r = [qubits, history]; history holds the
\* history_count recorded R_Cells (slots above history_count are never read
\* before they are written again).  The gates check no index: the operands of
\* the model are in range.
\* ------------------------------------------------------------------------

r_init(qubits) == [qubits |-> ZeroBits(qubits), history |-> <<>>]

\* history[history_count++] = (R_Cell){gate, a, b, c}
Record(r, gate, a, b, c) ==
    [r EXCEPT !.history = Append(@, [gate |-> gate, a |-> a, b |-> b, c |-> c])]

r_CCNOT(r, a, b, c) ==
    Record(IF r.qubits[a] # 0 /\ r.qubits[b] # 0
           THEN [r EXCEPT !.qubits[c] = Flip(@)] ELSE r, 0, a, b, c)

r_CNOT(r, a, b) ==
    Record(IF r.qubits[a] # 0 THEN [r EXCEPT !.qubits[b] = Flip(@)] ELSE r, 1, a, b, 0)

r_NOT(r, a) == Record([r EXCEPT !.qubits[a] = Flip(@)], 2, a, 0, 0)

r_SWAP(r, a, b) ==
    LET t == r.qubits[a]
        r1 == [r EXCEPT !.qubits[a] = r.qubits[b]]
    IN  Record([r1 EXCEPT !.qubits[b] = t], 3, a, b, 0)

\* r_checkpoint
r_checkpoint(r) == Len(r.history)

\* history_count--
DropLast(r) == [r EXCEPT !.history = SubSeq(@, 1, Len(@) - 1)]

\* r_restore: pop the last cell, run its gate again (which records it), pop
RECURSIVE r_restore(_, _)
r_restore(r, checkpoint) ==
    IF Len(r.history) > checkpoint
    THEN LET c == r.history[Len(r.history)]
             r1 == DropLast(r)
             r2 == IF c.gate = 0 THEN DropLast(r_CCNOT(r1, c.a, c.b, c.c))
                   ELSE IF c.gate = 1 THEN DropLast(r_CNOT(r1, c.a, c.b))
                   ELSE IF c.gate = 2 THEN DropLast(r_NOT(r1, c.a))
                   ELSE IF c.gate = 3 THEN DropLast(r_SWAP(r1, c.a, c.b))
                   ELSE r1
         IN  r_restore(r2, checkpoint)
    ELSE r

\* r_step_back: pop the last cell and apply its gate to the bits
r_step_back(r) ==
    IF Len(r.history) > 0
    THEN LET c == r.history[Len(r.history)]
             r1 == DropLast(r)
             q == r1.qubits
         IN  IF c.gate = 0
             THEN IF q[c.a] # 0 /\ q[c.b] # 0
                  THEN [r1 EXCEPT !.qubits[c.c] = Flip(@)] ELSE r1
             ELSE IF c.gate = 1
             THEN IF q[c.a] # 0 THEN [r1 EXCEPT !.qubits[c.b] = Flip(@)] ELSE r1
             ELSE IF c.gate = 2
             THEN [r1 EXCEPT !.qubits[c.a] = Flip(@)]
             ELSE IF c.gate = 3
             THEN [r1 EXCEPT !.qubits[c.a] = q[c.b], !.qubits[c.b] = q[c.a]]
             ELSE r1
    ELSE r

\* moop_core.c D layer
d_AND(r, a, b, result) ==
    LET r1 == IF r.qubits[result] # 0 THEN r_NOT(r, result) ELSE r
    IN  r_CCNOT(r1, a, b, result)

d_OR(r, a, b, result) ==
    LET r1 == r_NOT(r, a)
        r2 == r_NOT(r1, b)
        r3 == d_AND(r2, a, b, result)
        r4 == r_NOT(r3, result)
        r5 == r_NOT(r4, a)
    IN  r_NOT(r5, b)

d_XOR(r, a, b, result) ==
    LET r1 == IF r.qubits[result] # 0 THEN r_NOT(r, result) ELSE r
        r2 == r_CNOT(r1, a, result)
    IN  r_CNOT(r2, b, result)

d_NAND(r, a, b, result) == r_NOT(d_AND(r, a, b, result), result)

d_NOR(r, a, b, result) == r_NOT(d_OR(r, a, b, result), result)

\* ------------------------------------------------------------------------
\* SpecCore : one moop_core R_Runtime.
\*   mc_last   the last call: name, operands, runtime before it, and whether
\*             only gate and d_* calls had followed the last r_checkpoint
\*   mc_cp     the last r_checkpoint: its value, the bits at that time, and
\*             whether only gate and d_* calls have happened since
\*   mc_calls  number of gate and d_* calls made
\* ------------------------------------------------------------------------

CoreIdx == 0 .. CoreQubits - 1

CoreCall(op, args, r) ==
    /\ UNCHANGED <<minVars, ucVars, invVars, gateVars, rVars, hrVars, dVars, l3Vars, mc_maybes>>
    /\ mc_r' = r
    /\ mc_last' = [op |-> op, args |-> args, pre |-> mc_r, cp_clean |-> mc_cp.clean]

\* a gate or d_* call: counted, the checkpoint stays as it is
CoreOp(op, args, r) ==
    /\ mc_calls < MaxCoreCalls
    /\ mc_calls' = mc_calls + 1
    /\ CoreCall(op, args, r)
    /\ UNCHANGED mc_cp

CoreCCNOT ==
    \E a \in CoreIdx, b \in CoreIdx, c \in CoreIdx :
        CoreOp("r_CCNOT", <<a, b, c>>, r_CCNOT(mc_r, a, b, c))

CoreCNOT ==
    \E a \in CoreIdx, b \in CoreIdx : CoreOp("r_CNOT", <<a, b>>, r_CNOT(mc_r, a, b))

CoreNOT == \E a \in CoreIdx : CoreOp("r_NOT", <<a>>, r_NOT(mc_r, a))

CoreSWAP ==
    \E a \in CoreIdx, b \in CoreIdx : CoreOp("r_SWAP", <<a, b>>, r_SWAP(mc_r, a, b))

CoreAND ==
    \E a \in CoreIdx, b \in CoreIdx, res \in CoreIdx :
        CoreOp("d_AND", <<a, b, res>>, d_AND(mc_r, a, b, res))

CoreOR ==
    \E a \in CoreIdx, b \in CoreIdx, res \in CoreIdx :
        CoreOp("d_OR", <<a, b, res>>, d_OR(mc_r, a, b, res))

CoreXOR ==
    \E a \in CoreIdx, b \in CoreIdx, res \in CoreIdx :
        CoreOp("d_XOR", <<a, b, res>>, d_XOR(mc_r, a, b, res))

CoreNAND ==
    \E a \in CoreIdx, b \in CoreIdx, res \in CoreIdx :
        CoreOp("d_NAND", <<a, b, res>>, d_NAND(mc_r, a, b, res))

CoreNOR ==
    \E a \in CoreIdx, b \in CoreIdx, res \in CoreIdx :
        CoreOp("d_NOR", <<a, b, res>>, d_NOR(mc_r, a, b, res))

CoreCheckpoint ==
    /\ CoreCall("r_checkpoint", <<>>, mc_r)
    /\ mc_cp' = [taken |-> TRUE, c |-> r_checkpoint(mc_r),
                 qubits |-> mc_r.qubits, clean |-> TRUE]
    /\ UNCHANGED mc_calls

\* r_restore to the value the last r_checkpoint returned
CoreRestore ==
    /\ mc_cp.taken
    /\ CoreCall("r_restore", <<mc_cp.c>>, r_restore(mc_r, mc_cp.c))
    /\ mc_cp' = [mc_cp EXCEPT !.clean = FALSE]
    /\ UNCHANGED mc_calls

CoreStepBack ==
    /\ CoreCall("r_step_back", <<>>, r_step_back(mc_r))
    /\ mc_cp' = [mc_cp EXCEPT !.clean = FALSE]
    /\ UNCHANGED mc_calls

CoreNext ==
    \/ CoreCCNOT \/ CoreCNOT \/ CoreNOT \/ CoreSWAP
    \/ CoreAND \/ CoreOR \/ CoreXOR \/ CoreNAND \/ CoreNOR
    \/ CoreCheckpoint \/ CoreRestore \/ CoreStepBack

\* C6: r_restore(r, c), for c returned by r_checkpoint and followed only by
\* gate and d_* calls with in-range operands, ends with history_count = c and
\* the bits equal to their value when r_checkpoint was called.
C6_CoreRestore ==
    (mc_last.op = "r_restore" /\ mc_cp.taken /\ mc_last.args = <<mc_cp.c>>
        /\ mc_last.cp_clean)
        => /\ r_checkpoint(mc_r) = mc_cp.c
           /\ mc_r.qubits = mc_cp.qubits

\* the canonical boolean function each d_* operation names
Canonical(op, x, y) ==
    IF op \in {"d_AND", "d_execute_AND"} THEN (IF x = 1 /\ y = 1 THEN 1 ELSE 0)
    ELSE IF op \in {"d_OR", "d_execute_OR"} THEN (IF x = 1 \/ y = 1 THEN 1 ELSE 0)
    ELSE IF op \in {"d_XOR", "d_execute_XOR"} THEN (IF x # y THEN 1 ELSE 0)
    ELSE IF op \in {"d_NAND", "d_execute_NAND"} THEN (IF x = 1 /\ y = 1 THEN 0 ELSE 1)
    ELSE (IF x = 1 \/ y = 1 THEN 0 ELSE 1)

\* C10: for every bit state and every triple of in-range operand indices
\* (a, b, result), AND, OR, XOR, NAND and NOR leave bit[result] equal to the
\* canonical function of the values bit[a] and bit[b] held before the call.
C10_TruthTables ==
    mc_last.op \in {"d_AND", "d_OR", "d_XOR", "d_NAND", "d_NOR"}
        => mc_r.qubits[mc_last.args[3]]
             = Canonical(mc_last.op, mc_last.pre.qubits[mc_last.args[1]],
                         mc_last.pre.qubits[mc_last.args[2]])

\* ------------------------------------------------------------------------
\* d_layer.c : AND / OR / NAND / NOR / XOR composed from the r_layer.c gates
\* on the bits of the D_Runtime's R_Runtime.  d = [qubits, qubit_count,
\* ancilla_start, ancilla_count]; the results of the inner gate calls are
\* ignored where the code ignores them.
\* ------------------------------------------------------------------------

d_runtime_init(qubit_count, ancilla_count) ==
    [qubits |-> ZeroBits(qubit_count + ancilla_count),
     qubit_count |-> qubit_count + ancilla_count,
     ancilla_start |-> qubit_count, ancilla_count |-> ancilla_count]

\* the bits after a gate call on d's substrate
Bits(d, res) == [d EXCEPT !.qubits = res.qubits]

d_execute_AND(d, a, b, result) ==
    LET d1 == IF r_read_qubit(d.qubits, d.qubit_count, result) # 0
              THEN Bits(d, r_execute_NOT(d.qubits, d.qubit_count, result))
              ELSE d
        g == r_execute_CCNOT(d1.qubits, d1.qubit_count, a, b, result)
    IN  [ok |-> g.ok, d |-> Bits(d1, g)]

d_execute_OR(d, a, b, result) ==
    IF d.ancilla_count < 2
    THEN [ok |-> FALSE, d |-> d]
    ELSE LET n == d.qubit_count
             ancilla_a == d.ancilla_start
             ancilla_b == d.ancilla_start + 1
             d1 == Bits(d, r_write_qubit(d.qubits, n, ancilla_a,
                                         r_read_qubit(d.qubits, n, a)))
             d2 == Bits(d1, r_execute_NOT(d1.qubits, n, ancilla_a))
             d3 == Bits(d2, r_write_qubit(d2.qubits, n, ancilla_b,
                                          r_read_qubit(d2.qubits, n, b)))
             d4 == Bits(d3, r_execute_NOT(d3.qubits, n, ancilla_b))
             d5 == d_execute_AND(d4, ancilla_a, ancilla_b, result).d
         IN  [ok |-> TRUE, d |-> Bits(d5, r_execute_NOT(d5.qubits, n, result))]

d_execute_NAND(d, a, b, result) ==
    LET d1 == d_execute_AND(d, a, b, result).d
    IN  [ok |-> TRUE, d |-> Bits(d1, r_execute_NOT(d1.qubits, d1.qubit_count, result))]

d_execute_NOR(d, a, b, result) ==
    LET d1 == d_execute_OR(d, a, b, result).d
    IN  [ok |-> TRUE, d |-> Bits(d1, r_execute_NOT(d1.qubits, d1.qubit_count, result))]

d_execute_XOR(d, a, b, result) ==
    LET n == d.qubit_count
        d1 == IF r_read_qubit(d.qubits, n, result) # 0
              THEN Bits(d, r_execute_NOT(d.qubits, n, result))
              ELSE d
        d2 == Bits(d1, r_execute_CNOT(d1.qubits, n, a, result))
    IN  [ok |-> TRUE, d |-> Bits(d2, r_execute_CNOT(d2.qubits, n, b, result))]

\* ------------------------------------------------------------------------
\* SpecD : one D_Runtime; r_write_qubit sets the input bits.
\*   d_last  the last call: its name, its result, and what it did to the bits
\*     in_range  every operand index was below the store's qubit_count
\*     changed   some bit differs from its value before the call
\*     frame     every bit other than bit[target] kept its value
\* ------------------------------------------------------------------------

\* operand indices: the data bits, the ancilla bits and one past the end
DIdx == 0 .. DQubits + DAncilla

\* a call with operand indices idx writing its result to bit[target]
DCall(op, idx, target, res) ==
    /\ UNCHANGED <<minVars, ucVars, invVars, gateVars, rVars, hrVars, mcVars, l3Vars, d_maybes, maybe_last>>
    /\ d_runtime' = res.d
    /\ d_last' = [op |-> op, ok |-> res.ok,
                  in_range |-> \A i \in DOMAIN idx : idx[i] < d_runtime.qubit_count,
                  changed |-> res.d.qubits # d_runtime.qubits,
                  frame |-> \A i \in DOMAIN d_runtime.qubits :
                               i # target => res.d.qubits[i] = d_runtime.qubits[i]]

DWrite ==
    \E a \in DIdx, v \in Bit :
        LET w == r_write_qubit(d_runtime.qubits, d_runtime.qubit_count, a, v)
        IN  DCall("r_write_qubit", <<a>>, a, [ok |-> w.ok, d |-> Bits(d_runtime, w)])

DAnd ==
    \E a \in DIdx, b \in DIdx, res \in DIdx :
        DCall("d_execute_AND", <<a, b, res>>, res, d_execute_AND(d_runtime, a, b, res))

DOr ==
    \E a \in DIdx, b \in DIdx, res \in DIdx :
        DCall("d_execute_OR", <<a, b, res>>, res, d_execute_OR(d_runtime, a, b, res))

DNand ==
    \E a \in DIdx, b \in DIdx, res \in DIdx :
        DCall("d_execute_NAND", <<a, b, res>>, res, d_execute_NAND(d_runtime, a, b, res))

DNor ==
    \E a \in DIdx, b \in DIdx, res \in DIdx :
        DCall("d_execute_NOR", <<a, b, res>>, res, d_execute_NOR(d_runtime, a, b, res))

DXor ==
    \E a \in DIdx, b \in DIdx, res \in DIdx :
        DCall("d_execute_XOR", <<a, b, res>>, res, d_execute_XOR(d_runtime, a, b, res))

DNext == DWrite \/ DAnd \/ DOr \/ DNand \/ DNor \/ DXor

\* C11: d_execute_OR and d_execute_NOR with in-range operands change no bit
\* other than bit[result]: the two ancilla bits, bit[a] and bit[b] hold on
\* return the values they held before the call.
C11_OrFrame ==
    (d_last.op \in {"d_execute_OR", "d_execute_NOR"} /\ d_last.in_range)
        => d_last.frame

\* C34: d_execute_AND, OR, XOR, NAND and NOR called with an operand index
\* outside the bit store return false and leave every bit unchanged.
C34_OutOfRangeRefused ==
    (/\ d_last.op \in {"d_execute_AND", "d_execute_OR", "d_execute_XOR",
                       "d_execute_NAND", "d_execute_NOR"}
     /\ ~d_last.in_range)
        => ~d_last.ok /\ ~d_last.changed

\* ------------------------------------------------------------------------
\* d_layer.c and moop_core.c : the Maybe primitive.
\*   D_Maybe of d_layer.c  [is_resolved, value]
\*   D_Maybe of moop_core.c [resolved, value]
\* ------------------------------------------------------------------------

\* number of Maybe values created with each of the two constructors
MaxMaybes == 2

\* d_create_maybe
d_create_maybe == [is_resolved |-> FALSE, value |-> FALSE]

\* d_resolve_maybe: [ok, maybe]
d_resolve_maybe(maybe, value) ==
    IF maybe.is_resolved THEN [ok |-> FALSE, maybe |-> maybe]
    ELSE [ok |-> TRUE, maybe |-> [is_resolved |-> TRUE, value |-> value]]

\* d_is_resolved
d_is_resolved(maybe) == maybe.is_resolved

\* d_maybe of moop_core.c
d_maybe == [resolved |-> FALSE, value |-> FALSE]

\* d_resolve of moop_core.c
d_resolve(m, value) == [resolved |-> TRUE, value |-> value]

\* ------------------------------------------------------------------------
\* SpecMaybe : Maybe values of both kinds, created and resolved.
\*   d_maybes    the values made by d_create_maybe
\*   mc_maybes   the values made by d_maybe
\*   maybe_last  the last call: name, index of the value, argument, result
\*               (TRUE for the calls that return nothing), and for a resolve
\*               whether the value was resolved before and what it held
\* ------------------------------------------------------------------------

MaybeCall(op, index, value, ok, was_resolved, was_value) ==
    /\ maybe_last' = [op |-> op, index |-> index, value |-> value, ok |-> ok,
                      was_resolved |-> was_resolved, was_value |-> was_value]
    /\ UNCHANGED <<minVars, ucVars, invVars, gateVars, rVars, hrVars, l3Vars, mc_r, mc_last, mc_cp, mc_calls,
                   d_runtime, d_last>>

MaybeCreate ==
    /\ Len(d_maybes) < MaxMaybes
    /\ d_maybes' = Append(d_maybes, d_create_maybe)
    /\ MaybeCall("d_create_maybe", Len(d_maybes) + 1, FALSE, TRUE, FALSE, FALSE)
    /\ UNCHANGED mc_maybes

MaybeResolve ==
    /\ \E i \in DOMAIN d_maybes, value \in BOOLEAN :
        /\ d_maybes' = [d_maybes EXCEPT ![i] = d_resolve_maybe(@, value).maybe]
        /\ MaybeCall("d_resolve_maybe", i, value, d_resolve_maybe(d_maybes[i], value).ok,
                     d_is_resolved(d_maybes[i]), d_maybes[i].value)
    /\ UNCHANGED mc_maybes

CoreMaybeCreate ==
    /\ Len(mc_maybes) < MaxMaybes
    /\ mc_maybes' = Append(mc_maybes, d_maybe)
    /\ MaybeCall("d_maybe", Len(mc_maybes) + 1, FALSE, TRUE, FALSE, FALSE)
    /\ UNCHANGED d_maybes

CoreMaybeResolve ==
    /\ \E i \in DOMAIN mc_maybes, value \in BOOLEAN :
        /\ mc_maybes' = [mc_maybes EXCEPT ![i] = d_resolve(@, value)]
        /\ MaybeCall("d_resolve", i, value, TRUE, mc_maybes[i].resolved, mc_maybes[i].value)
    /\ UNCHANGED d_maybes

MaybeNext == MaybeCreate \/ MaybeResolve \/ CoreMaybeCreate \/ CoreMaybeResolve

\* C31: a Maybe is resolved at most once: a resolve of an unresolved value
\* succeeds and fixes the value, a resolve of a resolved value fails
\* (d_resolve_maybe returns false) and leaves it resolved with the value it
\* held; for the values of d_layer.c and for those of moop_core.c.
C31_ResolveOnce ==
    /\ maybe_last.op = "d_resolve_maybe" =>
         /\ maybe_last.ok = ~maybe_last.was_resolved
         /\ d_maybes[maybe_last.index].is_resolved
         /\ d_maybes[maybe_last.index].value
              = (IF maybe_last.was_resolved THEN maybe_last.was_value ELSE maybe_last.value)
    /\ maybe_last.op = "d_resolve" =>
         /\ mc_maybes[maybe_last.index].resolved
         /\ mc_maybes[maybe_last.index].value
              = (IF maybe_last.was_resolved THEN maybe_last.was_value ELSE maybe_last.value)

\* ------------------------------------------------------------------------
\* l3_turchin.c : strings.  A C string is a TLA+ string; position i of the
\* C string (0-based) is character i + 1 here.
\* ------------------------------------------------------------------------

\* character i (1-based) of s, "" past the end (the terminating NUL)
Ch(s, i) == IF i >= 1 /\ i <= Len(s) THEN SubSeq(s, i, i) ELSE ""

\* isspace
IsSpace(c) == c \in {" ", "\t", "\n", "\r"}

\* isupper
IsUpper(c) ==
    c \in {"A", "B", "C", "D", "E", "F", "G", "H", "I", "J", "K", "L", "M",
           "N", "O", "P", "Q", "R", "S", "T", "U", "V", "W", "X", "Y", "Z"}

\* isdigit
IsDigit(c) == c \in {"0", "1", "2", "3", "4", "5", "6", "7", "8", "9"}

\* first position >= i of s that holds no space (Len(s) + 1 if none)
RECURSIVE SkipSpaces(_, _)
SkipSpaces(s, i) ==
    IF i <= Len(s) /\ IsSpace(Ch(s, i)) THEN SkipSpaces(s, i + 1) ELSE i

\* last position > lo, going down from j, that holds no space (lo if none)
RECURSIVE SkipSpacesBack(_, _, _)
SkipSpacesBack(s, j, lo) ==
    IF j > lo /\ IsSpace(Ch(s, j)) THEN SkipSpacesBack(s, j - 1, lo) ELSE j

\* l3_trim: s without its leading and trailing white space
l3_trim(s) ==
    LET first == SkipSpaces(s, 1)
    IN  IF first > Len(s) THEN ""
        ELSE SubSeq(s, first, SkipSpacesBack(s, Len(s), first))

\* l3_starts_with
l3_starts_with(s, prefix) ==
    Len(s) >= Len(prefix) /\ SubSeq(s, 1, Len(prefix)) = prefix

\* l3_substring(str, start, len), start 0-based
\* (a negative len stands for the huge size_t the C subtraction wraps to)
l3_substring(s, start, len) ==
    IF start >= Len(s) THEN ""
    ELSE SubSeq(s, start + 1,
                IF len < 0 \/ start + len > Len(s) THEN Len(s) ELSE start + len)

\* strstr: 1-based position of the first occurrence of p in s from i on, 0 if none
RECURSIVE StrStrFrom(_, _, _)
StrStrFrom(s, p, i) ==
    IF i + Len(p) - 1 > Len(s) THEN 0
    ELSE IF SubSeq(s, i, i + Len(p) - 1) = p THEN i
    ELSE StrStrFrom(s, p, i + 1)

StrStr(s, p) == StrStrFrom(s, p, 1)

\* the rest of s from 1-based position i on (the C pointer s + i - 1)
From(s, i) == SubSeq(s, i, Len(s))

\* strtok(s, "\n") until exhausted: the non-empty pieces between newlines
RECURSIVE SplitLines(_)
SplitLines(s) ==
    IF s = "" THEN <<>>
    ELSE LET nl == StrStr(s, "\n")
         IN  IF nl = 0 THEN <<s>>
             ELSE IF nl = 1 THEN SplitLines(From(s, 2))
             ELSE <<SubSeq(s, 1, nl - 1)>> \o SplitLines(From(s, nl + 1))

\* value of a run of digits from position i on (atoi's loop), acc so far
RECURSIVE DigitsValue(_, _, _)
DigitsValue(s, i, acc) ==
    IF IsDigit(Ch(s, i))
    THEN DigitsValue(s, i + 1,
                     acc * 10 + (CHOOSE d \in 0 .. 9 : ToString(d) = Ch(s, i)))
    ELSE acc

\* atoi: optional white space, optional sign, digits; 0 if there are none
l3_atoi(s) ==
    LET i == SkipSpaces(s, 1)
    IN  IF Ch(s, i) = "-" THEN 0 - DigitsValue(s, i + 1, 0)
        ELSE IF Ch(s, i) = "+" THEN DigitsValue(s, i + 1, 0)
        ELSE DigitsValue(s, i, 0)

\* l3_is_number: optional sign, digits with at most one dot, at least one digit
RECURSIVE NumberTail(_, _, _, _)
NumberTail(s, i, has_digit, has_dot) ==
    IF i > Len(s) THEN has_digit
    ELSE IF IsDigit(Ch(s, i)) THEN NumberTail(s, i + 1, TRUE, has_dot)
    ELSE IF Ch(s, i) = "." /\ ~has_dot THEN NumberTail(s, i + 1, has_digit, TRUE)
    ELSE FALSE

l3_is_number(s) ==
    IF s = "" THEN FALSE
    ELSE NumberTail(s, IF Ch(s, 1) \in {"-", "+"} THEN 2 ELSE 1, FALSE, FALSE)

\* ------------------------------------------------------------------------
\* l3_turchin.c : actor state, message queue, runtime.
\*   L3_ActorState   [keys, values]  two parallel sequences
\*   L3_Message      [event, data]
\*   L3_MessageQueue [messages, count, capacity, head, tail]; messages maps
\*                   slot 0 .. capacity - 1 to a message, or to NoMessage where
\*                   the slot was never written or its message was freed
\*   L3_Actor        [id, name, role, state, handlers]
\*   L3_ActorRuntime [actors, message_queues, next_actor_id]
\* ------------------------------------------------------------------------

\* l3_queue_create: the initial capacity of a mailbox
L3QueueCapacity == 64

\* l3_execute_block: max_iterations of a while loop
L3MaxIterations == 10000

\* l3_state_create
l3_state_create == [keys |-> <<>>, values |-> <<>>]

\* position of key in state.keys, 0 if absent (the strcmp loops)
RECURSIVE KeyIndexFrom(_, _, _)
KeyIndexFrom(keys, key, i) ==
    IF i > Len(keys) THEN 0
    ELSE IF keys[i] = key THEN i
    ELSE KeyIndexFrom(keys, key, i + 1)

KeyIndex(keys, key) == KeyIndexFrom(keys, key, 1)

\* l3_state_set
l3_state_set(state, key, value) ==
    LET i == KeyIndex(state.keys, key)
    IN  IF i # 0 THEN [state EXCEPT !.values[i] = value]
        ELSE [keys |-> Append(state.keys, key), values |-> Append(state.values, value)]

\* l3_state_get; NULL (the empty sequence) if the key is absent
l3_state_get(state, key) ==
    LET i == KeyIndex(state.keys, key)
    IN  IF i # 0 THEN <<state.values[i]>> ELSE NULL

\* a slot of the messages array that holds no live message
NoMessage == [event |-> "", data |-> "", live |-> FALSE]

\* l3_queue_create
l3_queue_create ==
    [messages |-> [i \in 0 .. L3QueueCapacity - 1 |-> NoMessage],
     count |-> 0, capacity |-> L3QueueCapacity, head |-> 0, tail |-> 0]

\* the expansion that copies the slots from index 0 on, whatever the head
QueueExpand_fromzero(queue) ==
    LET new_cap == queue.capacity * 2
    IN  [messages |-> [i \in 0 .. new_cap - 1 |->
                          IF i < queue.count
                          THEN queue.messages[i % queue.capacity]
                          ELSE NoMessage],
         count |-> queue.count, capacity |-> new_cap,
         head |-> 0, tail |-> queue.count]

\* the expansion at the head of l3_queue_push
QueueExpand(queue) ==
    LET new_cap == queue.capacity * 2
    IN  [messages |-> [i \in 0 .. new_cap - 1 |->
                          IF i < queue.count
                          THEN queue.messages[(queue.head + i) % queue.capacity]
                          ELSE NoMessage],
         count |-> queue.count, capacity |-> new_cap,
         head |-> 0, tail |-> queue.count]

\* l3_queue_push; data is NULL or a one-element sequence
l3_queue_push(queue, event, data) ==
    LET q == IF queue.count >= queue.capacity THEN QueueExpand(queue) ELSE queue
        msg == [event |-> event,
                data |-> IF data = NULL THEN "{}" ELSE data[1],
                live |-> TRUE]
    IN  [q EXCEPT !.messages[q.tail] = msg,
                  !.tail = (q.tail + 1) % q.capacity,
                  !.count = q.count + 1]

\* l3_queue_pop on a queue with count > 0: the message and the queue; the slot
\* of the message is dead once l3_tick has freed it
l3_queue_pop(queue) ==
    [msg |-> queue.messages[queue.head],
     queue |-> [queue EXCEPT !.messages[queue.head] = NoMessage,
                             !.head = (queue.head + 1) % queue.capacity,
                             !.count = queue.count - 1]]

\* l3_runtime_init
l3_runtime_init == [actors |-> <<>>, message_queues |-> <<>>, next_actor_id |-> 1]

\* l3_spawn_actor; def = [name, role, initial_state, handlers]
RECURSIVE CopyState(_, _, _)
CopyState(to, from, i) ==
    IF i > Len(from.keys) THEN to
    ELSE CopyState(l3_state_set(to, from.keys[i], from.values[i]), from, i + 1)

l3_spawn_actor(runtime, def) ==
    LET actor == [id |-> runtime.next_actor_id, name |-> def.name, role |-> def.role,
                  state |-> CopyState(l3_state_create, def.initial_state, 1),
                  handlers |-> def.handlers]
    IN  [id |-> actor.id,
         runtime |-> [actors |-> Append(runtime.actors, actor),
                      message_queues |-> Append(runtime.message_queues, l3_queue_create),
                      next_actor_id |-> runtime.next_actor_id + 1]]

\* index (1-based) of the first actor with this id, 0 if none
RECURSIVE ActorIndexFrom(_, _, _)
ActorIndexFrom(actors, actor_id, i) ==
    IF i > Len(actors) THEN 0
    ELSE IF actors[i].id = actor_id THEN i
    ELSE ActorIndexFrom(actors, actor_id, i + 1)

\* l3_send_message
l3_send_message(runtime, actor_id, event, data) ==
    LET actor_index == ActorIndexFrom(runtime.actors, actor_id, 1)
    IN  IF actor_index = 0 THEN [ok |-> FALSE, runtime |-> runtime]
        ELSE [ok |-> TRUE,
              runtime |-> [runtime EXCEPT !.message_queues[actor_index] =
                              l3_queue_push(@, event, data)]]

\* l3_get_actor_by_name that falls back to the first actor
l3_get_actor_by_name_first(runtime, name) ==
    IF runtime.actors = <<>> THEN -1 ELSE runtime.actors[1].id

\* l3_get_actor_by_name: the id of the first actor with this name, -1 if none
RECURSIVE ActorByNameFrom(_, _, _)
ActorByNameFrom(actors, name, i) ==
    IF i > Len(actors) THEN -1
    ELSE IF actors[i].name = name THEN actors[i].id
    ELSE ActorByNameFrom(actors, name, i + 1)

l3_get_actor_by_name(runtime, name) == ActorByNameFrom(runtime.actors, name, 1)

\* ------------------------------------------------------------------------
\* l3_turchin.c : expressions and conditions.
\*   L3_ExecutionContext [state, data, runtime, actor_id, locals, logged]
\*   locals is [keys, values]; logged counts the lines printed by log
\*   statements.  Numbers are integers.
\* ------------------------------------------------------------------------

\* isalnum
IsAlnum(c) ==
    \/ IsDigit(c) \/ IsUpper(c)
    \/ c \in {"a", "b", "c", "d", "e", "f", "g", "h", "i", "j", "k", "l", "m",
              "n", "o", "p", "q", "r", "s", "t", "u", "v", "w", "x", "y", "z"}

\* l3_set_local
l3_set_local(ctx, key, value) == [ctx EXCEPT !.locals = l3_state_set(@, key, value)]

\* l3_get_local
l3_get_local(ctx, key) == l3_state_get(ctx.locals, key)

\* strpbrk(s, "+-*/()") # NULL
RECURSIVE HasArithmeticFrom(_, _)
HasArithmeticFrom(s, i) ==
    IF i > Len(s) THEN FALSE
    ELSE IF Ch(s, i) \in {"+", "-", "*", "/", "(", ")"} THEN TRUE
    ELSE HasArithmeticFrom(s, i + 1)

\* end of the variable name that starts at position i: first position that
\* holds neither a letter, a digit nor an underscore
RECURSIVE NameEnd(_, _)
NameEnd(s, i) ==
    IF i <= Len(s) /\ (IsAlnum(Ch(s, i)) \/ Ch(s, i) = "_") THEN NameEnd(s, i + 1) ELSE i

\* the loop that replaces every "state.X" by the value of X ("0" if unset)
RECURSIVE ReplaceState(_, _)
ReplaceState(replaced, state) ==
    LET pos == StrStr(replaced, "state.")
        var_end == NameEnd(replaced, pos + 6)
        value == l3_state_get(state, SubSeq(replaced, pos + 6, var_end - 1))
    IN  IF pos = 0 THEN replaced
        ELSE ReplaceState(SubSeq(replaced, 1, pos - 1)
                              \o (IF value = NULL THEN "0" ELSE value[1])
                              \o From(replaced, var_end),
                          state)

\* the loop that replaces the first occurrence of each local, if it stands
\* between word boundaries, by the local's value
RECURSIVE ReplaceLocals(_, _, _)
ReplaceLocals(replaced, locals, i) ==
    IF i > Len(locals.keys) THEN replaced
    ELSE LET search == locals.keys[i]
             pos == StrStr(replaced, search)
             is_start == pos = 1 \/ ~IsAlnum(Ch(replaced, pos - 1))
             is_end == ~IsAlnum(Ch(replaced, pos + Len(search)))
         IN  IF pos # 0 /\ is_start /\ is_end
             THEN ReplaceLocals(SubSeq(replaced, 1, pos - 1) \o locals.values[i]
                                    \o From(replaced, pos + Len(search)),
                                locals, i + 1)
             ELSE ReplaceLocals(replaced, locals, i + 1)

\* s without its white space
RECURSIVE Squeeze(_)
Squeeze(s) ==
    IF s = "" THEN ""
    ELSE IF IsSpace(Ch(s, 1)) THEN Squeeze(Tail(s))
    ELSE Ch(s, 1) \o Squeeze(Tail(s))

\* position > i of the first of + - * / in s, 0 if none
RECURSIVE OperatorFrom(_, _)
OperatorFrom(s, i) ==
    IF i > Len(s) THEN 0
    ELSE IF Ch(s, i) \in {"+", "-", "*", "/"} THEN i
    ELSE OperatorFrom(s, i + 1)

\* a decimal integer with an optional minus sign
IsInteger(s) ==
    /\ s # ""
    /\ LET d == IF Ch(s, 1) = "-" THEN Tail(s) ELSE s
       IN  d # "" /\ \A i \in 1 .. Len(d) : IsDigit(Ch(d, i))

\* the decimal text of an integer, as printf %d and bc print it
IntText(n) == IF n < 0 THEN "-" \o ToString(0 - n) ELSE ToString(n)

\* the line that `echo 'text' | bc` prints for one operation on two
\* integers; NULL stands for no output
Bc(text) ==
    LET s == Squeeze(text)
        op == OperatorFrom(s, 2)
        left == SubSeq(s, 1, op - 1)
        right == From(s, op + 1)
        x == l3_atoi(left)
        y == l3_atoi(right)
    IN  IF IsInteger(s) THEN <<IntText(l3_atoi(s))>>
        ELSE IF op = 0 \/ ~IsInteger(left) \/ ~IsInteger(right) THEN NULL
        ELSE IF Ch(s, op) = "+" THEN <<IntText(x + y)>>
        ELSE IF Ch(s, op) = "-" THEN <<IntText(x - y)>>
        ELSE IF Ch(s, op) = "*" THEN <<IntText(x * y)>>
        ELSE IF y = 0 THEN NULL
        ELSE <<IntText((IF (x < 0) = (y < 0) THEN 1 ELSE -1)
                       * ((IF x < 0 THEN 0 - x ELSE x) \div (IF y < 0 THEN 0 - y ELSE y)))>>

\* the string found, or else the alternative
OrElse(found, alternative) == IF found # NULL THEN found[1] ELSE alternative

\* l3_evaluate_expression
l3_evaluate_expression(expr, ctx) ==
    LET trimmed == l3_trim(expr)
    IN  IF Ch(trimmed, 1) \in {"\"", "'"}
        THEN l3_substring(trimmed, 1, Len(trimmed) - 2)
        ELSE IF l3_is_number(trimmed) THEN trimmed
        ELSE IF trimmed \in {"true", "false"} THEN trimmed
        ELSE OrElse(IF HasArithmeticFrom(trimmed, 1)
                    THEN Bc(ReplaceLocals(ReplaceState(trimmed, ctx.state), ctx.locals, 1))
                    ELSE NULL,
                    IF l3_starts_with(trimmed, "state.")
                    THEN OrElse(l3_state_get(ctx.state, From(trimmed, 7)), "0")
                    ELSE OrElse(l3_get_local(ctx, trimmed), expr))

\* the comparison operators in the order l3_evaluate_condition tries them
ConditionOperators == <<"<=", ">=", "==", "!=", "<", ">">>

\* index of the first operator of ConditionOperators, from i on, that
\* occurs in s; 0 if none does
RECURSIVE FirstOperator(_, _)
FirstOperator(s, i) ==
    IF i > Len(ConditionOperators) THEN 0
    ELSE IF StrStr(s, ConditionOperators[i]) # 0 THEN i
    ELSE FirstOperator(s, i + 1)

\* the comparison of l3_evaluate_condition on the two evaluated sides
Compare(op, left_val, right_val) ==
    LET left_num == l3_atoi(left_val)
        right_num == l3_atoi(right_val)
    IN  IF op = "<" THEN left_num < right_num
        ELSE IF op = ">" THEN left_num > right_num
        ELSE IF op = "<=" THEN left_num <= right_num
        ELSE IF op = ">=" THEN left_num >= right_num
        ELSE IF op = "==" THEN left_num = right_num \/ left_val = right_val
        ELSE left_num # right_num /\ left_val # right_val

\* the truth of a condition without comparison operator
Truthy(val) == val = "true" \/ l3_atoi(val) # 0

\* l3_evaluate_condition
l3_evaluate_condition(condition, ctx) ==
    LET trimmed == l3_trim(condition)
        i == FirstOperator(trimmed, 1)
        op == ConditionOperators[i]
        op_pos == StrStr(trimmed, op)
    IN  IF i = 0 THEN Truthy(l3_evaluate_expression(trimmed, ctx))
        ELSE Compare(op,
                     l3_evaluate_expression(l3_trim(SubSeq(trimmed, 1, op_pos - 1)), ctx),
                     l3_evaluate_expression(l3_trim(From(trimmed, op_pos + Len(op))), ctx))

\* ------------------------------------------------------------------------
\* l3_turchin.c : handler execution and l3_tick.
\* ------------------------------------------------------------------------

\* l3_get_indent: the number of leading blanks
RECURSIVE IndentFrom(_, _)
IndentFrom(line, i) == IF Ch(line, i) = " " THEN IndentFrom(line, i + 1) ELSE i - 1

l3_get_indent(line) == IndentFrom(line, 1)

\* the printf of a log statement
Log(ctx) == [ctx EXCEPT !.logged = @ + 1]

\* the arrow assignment of l3_execute_line: to a state key or to a local
Assign(ctx, target, value) ==
    IF l3_starts_with(target, "state.")
    THEN [ctx EXCEPT !.state = l3_state_set(@, From(target, 7), value)]
    ELSE l3_set_local(ctx, target, value)

\* l3_execute_line
l3_execute_line(trimmed, ctx) ==
    LET arrow_pos == StrStr(trimmed, "->")
        target_trimmed == l3_trim(SubSeq(trimmed, 1, arrow_pos - 1))
        message_part == l3_trim(From(trimmed, arrow_pos + 2))
        space_pos == StrStr(message_part, " ")
        message_name == IF space_pos # 0 THEN SubSeq(message_part, 1, space_pos - 1)
                        ELSE message_part
        target_id == l3_get_actor_by_name(ctx.runtime, target_trimmed)
        rest == From(trimmed, 5)
        let_arrow == StrStr(rest, "->")
    IN  IF l3_starts_with(trimmed, "self ->")
        THEN (IF l3_starts_with(l3_trim(From(trimmed, 8)), "log ") THEN Log(ctx) ELSE ctx)
        ELSE IF arrow_pos # 0 /\ IsUpper(Ch(trimmed, 1))
        THEN (IF target_id # -1
              THEN [ctx EXCEPT !.runtime =
                       l3_send_message(@, target_id, message_name, <<ctx.data>>).runtime]
              ELSE ctx)
        ELSE IF l3_starts_with(trimmed, "let ")
        THEN (IF let_arrow # 0
              THEN l3_set_local(ctx, l3_trim(SubSeq(rest, 1, let_arrow - 1)),
                                l3_evaluate_expression(l3_trim(From(rest, let_arrow + 2)), ctx))
              ELSE ctx)
        ELSE IF arrow_pos # 0 /\ ~l3_starts_with(trimmed, "if ")
                /\ ~l3_starts_with(trimmed, "while ")
        THEN Assign(ctx, target_trimmed,
                    l3_evaluate_expression(l3_trim(From(trimmed, arrow_pos + 2)), ctx))
        ELSE IF l3_starts_with(trimmed, "log ") THEN Log(ctx)
        ELSE ctx

\* the loops that collect the body of an if, while or for: from line idx on,
\* up to the first non-empty line indented less than the first non-empty
\* one.  body_indent is -1 until that first line is seen.
RECURSIVE CollectBody(_, _, _, _)
CollectBody(lines, idx, line_count, body_indent) ==
    IF idx >= line_count THEN [end |-> idx, indent |-> body_indent]
    ELSE LET next_line == At(lines, idx)
             blank == l3_trim(next_line) = ""
             next_indent == l3_get_indent(next_line)
             indent == IF ~blank /\ body_indent = -1 THEN next_indent ELSE body_indent
         IN  IF ~blank /\ next_indent < indent
             THEN [end |-> idx, indent |-> indent]
             ELSE CollectBody(lines, idx + 1, line_count, indent)

RECURSIVE l3_execute_block(_, _, _, _, _)
RECURSIVE WhileLoop(_, _, _)
RECURSIVE WhileLoop_capplusone(_, _, _)
RECURSIVE ForLoop(_, _, _, _, _)

\* the while loop whose cap is tested with <= instead of <
WhileLoop_capplusone(w, n, loop) ==
    IF w.done \/ n = 0 THEN w
    ELSE IF n = 1
    THEN IF l3_evaluate_condition(loop.condition, w.ctx) /\ w.iterations <= L3MaxIterations
         THEN [ctx |-> IF loop.indent # -1
                       THEN l3_execute_block(loop.lines, loop.start, loop.end,
                                             loop.indent, w.ctx).ctx
                       ELSE w.ctx,
               iterations |-> w.iterations + 1, done |-> FALSE]
         ELSE [w EXCEPT !.done = TRUE]
    ELSE WhileLoop_capplusone(WhileLoop_capplusone(w, n \div 2, loop), n - n \div 2, loop)

\* n further rounds of the while loop of l3_execute_block; w = [ctx,
\* iterations, done], loop = [condition, lines, start, end, indent].  The
\* rounds are split in halves so that the depth of the evaluation stays
\* logarithmic in n; they run in the order of the C loop.
WhileLoop(w, n, loop) ==
    IF w.done \/ n = 0 THEN w
    ELSE IF n = 1
    THEN IF l3_evaluate_condition(loop.condition, w.ctx) /\ w.iterations < L3MaxIterations
         THEN [ctx |-> IF loop.indent # -1
                       THEN l3_execute_block(loop.lines, loop.start, loop.end,
                                             loop.indent, w.ctx).ctx
                       ELSE w.ctx,
               iterations |-> w.iterations + 1, done |-> FALSE]
         ELSE [w EXCEPT !.done = TRUE]
    ELSE WhileLoop(WhileLoop(w, n \div 2, loop), n - n \div 2, loop)

\* the for loop that stops before end_num
RECURSIVE ForLoop_exclusive(_, _, _, _, _)
ForLoop_exclusive(f, end_num, var, body, lines) ==
    IF f.i >= end_num THEN f.ctx
    ELSE ForLoop_exclusive(
             [ctx |-> IF body.indent # -1
                      THEN l3_execute_block(lines, body.start, body.end, body.indent,
                                            l3_set_local(f.ctx, var, IntText(f.i))).ctx
                      ELSE l3_set_local(f.ctx, var, IntText(f.i)),
              i |-> f.i + 1],
             end_num, var, body, lines)

\* the for loop of l3_execute_block up to end_num; f = [ctx, i] is the
\* context and the value of the loop variable at the head of an iteration
ForLoop(f, end_num, var, body, lines) ==
    IF f.i > end_num THEN f.ctx
    ELSE ForLoop([ctx |-> IF body.indent # -1
                          THEN l3_execute_block(lines, body.start, body.end, body.indent,
                                                l3_set_local(f.ctx, var, IntText(f.i))).ctx
                          ELSE l3_set_local(f.ctx, var, IntText(f.i)),
                  i |-> f.i + 1],
                 end_num, var, body, lines)

\* l3_execute_block from line line_idx (0-based) on; the result holds the
\* context and the line index on return
l3_execute_block(lines, line_idx, line_count, base_indent, ctx) ==
    IF line_idx >= line_count THEN [ctx |-> ctx, line_idx |-> line_idx]
    ELSE
    LET line == At(lines, line_idx)
        trimmed == l3_trim(line)
        indent == l3_get_indent(line)
        body == CollectBody(lines, line_idx + 1, line_count, -1)
        rest == From(trimmed, 5)
        in_pos == StrStr(rest, " in ")
        to_pos == StrStr(rest, " to ")
        start_num == l3_atoi(l3_evaluate_expression(
                        l3_trim(l3_substring(From(rest, in_pos + 4), 0, to_pos - (in_pos + 4))),
                        ctx))
        end_num == l3_atoi(l3_evaluate_expression(l3_trim(From(rest, to_pos + 4)), ctx))
    IN  IF trimmed = "" \/ l3_starts_with(trimmed, "//")
        THEN l3_execute_block(lines, line_idx + 1, line_count, base_indent, ctx)
        ELSE IF indent < base_indent
        THEN [ctx |-> ctx, line_idx |-> line_idx]
        ELSE IF l3_starts_with(trimmed, "if ")
        THEN l3_execute_block(
                 lines, body.end, line_count, base_indent,
                 IF l3_evaluate_condition(l3_trim(From(trimmed, 4)), ctx) /\ body.indent # -1
                 THEN l3_execute_block(lines, line_idx + 1, body.end, body.indent, ctx).ctx
                 ELSE ctx)
        ELSE IF l3_starts_with(trimmed, "while ")
        THEN l3_execute_block(
                 lines, body.end, line_count, base_indent,
                 WhileLoop([ctx |-> ctx, iterations |-> 0, done |-> FALSE],
                           L3MaxIterations + 1,
                           [condition |-> l3_trim(From(trimmed, 7)), lines |-> lines,
                            start |-> line_idx + 1, end |-> body.end,
                            indent |-> body.indent]).ctx)
        ELSE IF l3_starts_with(trimmed, "for ") /\ in_pos # 0 /\ to_pos # 0
        THEN l3_execute_block(
                 lines, body.end, line_count, base_indent,
                 ForLoop([ctx |-> ctx, i |-> start_num], end_num,
                         l3_trim(SubSeq(rest, 1, in_pos - 1)),
                         [start |-> line_idx + 1, end |-> body.end, indent |-> body.indent],
                         lines))
        ELSE l3_execute_block(lines, line_idx + 1, line_count, base_indent,
                              l3_execute_line(trimmed, ctx))

\* l3_execute_handler
l3_execute_handler(body, ctx) ==
    LET lines == SplitLines(body)
    IN  l3_execute_block(lines, 0, Len(lines), 0, ctx).ctx

\* the record of a call before it has handled any message
Unhandled(runtime) == [runtime |-> runtime, handled |-> <<>>, logged |-> 0]

\* the handler of actor for event: the first with that event_name, NULL if none
RECURSIVE FindHandler(_, _, _)
FindHandler(handlers, event, h) ==
    IF h > Len(handlers) THEN NULL
    ELSE IF handlers[h].event_name = event THEN <<handlers[h]>>
    ELSE FindHandler(handlers, event, h + 1)

\* the end of the loop body of l3_tick with a state map that is shared by
\* the actors spawned from one definition
Handled_shared(t, i, entry, ctx) ==
    [runtime |-> [ctx.runtime EXCEPT !.actors =
                     [j \in DOMAIN @ |->
                         IF @[j].name = @[i].name
                         THEN [@[j] EXCEPT !.state = ctx.state]
                         ELSE @[j]]],
     handled |-> Append(t.handled, entry),
     logged |-> t.logged + ctx.logged]

\* the end of the loop body of l3_tick that stores the locals of the
\* invocation in the actor's state
Handled_keeplocals(t, i, entry, ctx) ==
    [runtime |-> [ctx.runtime EXCEPT !.actors[i].state =
                     CopyState(ctx.state, ctx.locals, 1)],
     handled |-> Append(t.handled, entry),
     logged |-> t.logged + ctx.logged]

\* the body of the for loop of l3_tick for actor index i (1-based); t =
\* [runtime, handled, logged], handled lists what the tick has processed
\* the end of the loop body of l3_tick once the handler has run: the
\* actor's state and the runtime are those the handler left
Handled(t, i, entry, ctx) ==
    [runtime |-> [ctx.runtime EXCEPT !.actors[i].state = ctx.state],
     handled |-> Append(t.handled, entry),
     logged |-> t.logged + ctx.logged]

\* the loop body of l3_tick that leaves a message without handler in the
\* mailbox
TickActor_keepmessage(t, i) ==
    LET queue == t.runtime.message_queues[i]
        popped == l3_queue_pop(queue)
        msg == popped.msg
        r1 == [t.runtime EXCEPT !.message_queues[i] = popped.queue]
        actor == r1.actors[i]
        handler == FindHandler(actor.handlers, msg.event, 1)
        entry == [actor |-> i, event |-> msg.event, data |-> msg.data,
                  handler |-> handler # NULL]
    IN  IF queue.count = 0 THEN t
        ELSE IF handler = NULL
        THEN [t EXCEPT !.handled = Append(@, entry)]
        ELSE Handled(t, i, entry,
                     l3_execute_handler(handler[1].body_code,
                         [state |-> actor.state, data |-> msg.data, runtime |-> r1,
                          actor_id |-> actor.id, locals |-> l3_state_create, logged |-> 0]))

TickActor(t, i) ==
    LET queue == t.runtime.message_queues[i]
        popped == l3_queue_pop(queue)
        msg == popped.msg
        r1 == [t.runtime EXCEPT !.message_queues[i] = popped.queue]
        actor == r1.actors[i]
        handler == FindHandler(actor.handlers, msg.event, 1)
        entry == [actor |-> i, event |-> msg.event, data |-> msg.data,
                  handler |-> handler # NULL]
    IN  IF queue.count = 0 THEN t
        ELSE IF handler = NULL
        THEN [t EXCEPT !.runtime = r1, !.handled = Append(@, entry)]
        ELSE Handled(t, i, entry,
                     l3_execute_handler(handler[1].body_code,
                         [state |-> actor.state, data |-> msg.data, runtime |-> r1,
                          actor_id |-> actor.id, locals |-> l3_state_create, logged |-> 0]))

\* the loop of l3_tick that stays at an actor until its mailbox is empty
RECURSIVE TickFrom_drain(_, _)
TickFrom_drain(t, i) ==
    IF i > Len(t.runtime.actors) THEN t
    ELSE TickFrom_drain(TickActor(t, i),
                        IF t.runtime.message_queues[i].count > 1 THEN i ELSE i + 1)

\* l3_tick: the for loop over the actors, in index order
RECURSIVE TickFrom(_, _)
TickFrom(t, i) ==
    IF i > Len(t.runtime.actors) THEN t
    ELSE TickFrom(TickActor(t, i), i + 1)

l3_tick(runtime) == TickFrom(Unhandled(runtime), 1)

\* ------------------------------------------------------------------------
\* SpecL3 : one L3_ActorRuntime with the actors Sender and Receiver, driven
\* by l3_spawn_actor, l3_send_message and l3_tick.
\*   l3_last  the last call: name, argument (actor id of a send), result,
\*            the mailboxes and actor states before it, and for a tick what
\*            it handled, in order, and how many log lines it printed
\*   l3_sent  the number of l3_send_message calls so far
\*   l3_ticks the number of l3_tick calls so far
\* ------------------------------------------------------------------------

\* the messages of a mailbox, oldest first
Content(queue) ==
    [k \in 1 .. queue.count |->
        LET m == queue.messages[(queue.head + k - 1) % queue.capacity]
        IN  [event |-> m.event, data |-> m.data]]

\* the mailboxes and the actor states of a runtime
Snapshot(runtime) ==
    [contents |-> [i \in 1 .. Len(runtime.actors) |-> Content(runtime.message_queues[i])],
     states |-> [i \in 1 .. Len(runtime.actors) |-> runtime.actors[i].state]]

\* the definition of a Sender as in test_l3_turchin.c, with a second
\* handler that sends to an actor that does not exist; handler bodies are
\* the trimmed lines that l3_parse_actor joins with newlines
SenderDef ==
    [name |-> "Sender", role |-> "Send messages to receiver",
     initial_state |-> [keys |-> <<"sent_count">>, values |-> <<"0">>],
     handlers |-> <<[event_name |-> "send_message",
                     body_code |-> "log \"Sending message\"\nReceiver -> process_data\nstate.sent_count -> 1"],
                    [event_name |-> "send_nobody",
                     body_code |-> "Nobody -> process_data\nstate.sent_count -> 2"]>>]

\* the definition of a Receiver as in test_arrow_messages.c
ReceiverDef ==
    [name |-> "Receiver", role |-> "Receive and process messages",
     initial_state |-> [keys |-> <<"received_count">>, values |-> <<"0">>],
     handlers |-> <<[event_name |-> "process_data",
                     body_code |-> "log \"Processing received data\"\nstate.received_count -> 1"]>>]

\* the events the environment sends; no actor handles "unknown", and
\* process_data only arrives from a Sender
L3Events == {"send_message", "send_nobody", "unknown"}

L3Call(op, arg, ok, t) ==
    /\ UNCHANGED <<minVars, ucVars, invVars, gateVars, rVars, hrVars, mcVars, dVars>>
    /\ l3_runtime' = t.runtime
    /\ l3_last' = [op |-> op, arg |-> arg, ok |-> ok, pre |-> Snapshot(l3_runtime),
                   handled |-> t.handled, logged |-> t.logged]

L3SpawnCall(res) == L3Call("l3_spawn_actor", res.id, res.id # -1, Unhandled(res.runtime))

L3SendCall(actor_id, res) == L3Call("l3_send_message", actor_id, res.ok, Unhandled(res.runtime))

L3Spawn ==
    /\ Len(l3_runtime.actors) < MaxL3Actors
    /\ \E def \in {SenderDef, ReceiverDef} :
        L3SpawnCall(l3_spawn_actor(l3_runtime, def))
    /\ UNCHANGED <<l3_sent, l3_ticks, l3_log>>

L3Send ==
    /\ l3_sent < MaxL3Sends
    /\ \E actor_id \in 1 .. MaxL3Actors + 1, event \in L3Events :
        L3SendCall(actor_id, l3_send_message(l3_runtime, actor_id, event, NULL))
    /\ l3_sent' = l3_sent + 1
    /\ UNCHANGED <<l3_ticks, l3_log>>

L3Tick ==
    /\ \E t \in {l3_tick(l3_runtime)} : L3Call("l3_tick", 0, TRUE, t)
    /\ UNCHANGED <<l3_sent, l3_ticks, l3_log>>

L3Next == L3Spawn \/ L3Send \/ L3Tick

\* the mailboxes after the last call
L3Contents == Snapshot(l3_runtime).contents

\* the last call was a tick that handled, for actor index i, its k-th message
HandledAt(k, i) == k \in DOMAIN l3_last.handled /\ l3_last.handled[k].actor = i

\* every actor whose mailbox held a message before the tick was handled
AllProcessed ==
    \A i \in DOMAIN l3_last.pre.contents :
        l3_last.pre.contents[i] # <<>> => \E k \in DOMAIN l3_last.handled : HandledAt(k, i)

C14_NoSameTickRelay ==
    l3_last.op = "l3_tick" =>
        \A k \in DOMAIN l3_last.handled :
            l3_last.pre.contents[l3_last.handled[k].actor] # <<>>

\* C16: a message whose event has no handler is removed from the mailbox,
\* the actor's state stays as it was, and the tick handles the other
\* actors as usual.
C16_NoHandlerDropped ==
    l3_last.op = "l3_tick" =>
        \A k \in DOMAIN l3_last.handled :
            ~l3_last.handled[k].handler =>
                LET i == l3_last.handled[k].actor
                    before == l3_last.pre.contents[i]
                IN  /\ l3_runtime.actors[i].state = l3_last.pre.states[i]
                    /\ before # <<>> /\ before[1].event = l3_last.handled[k].event
                    /\ Len(L3Contents[i]) >= Len(before) - 1
                    /\ SubSeq(L3Contents[i], 1, Len(before) - 1) = Tail(before)
                    /\ AllProcessed

\* a tick that drops a message without handler at the first actor, which
\* holds a further message, and runs a handler at the second
C16_Witness ==
    /\ l3_last.op = "l3_tick"
    /\ Len(l3_last.handled) = 2
    /\ ~l3_last.handled[1].handler /\ l3_last.handled[2].handler
    /\ Len(l3_last.pre.contents[l3_last.handled[1].actor]) = 2

\* the tick ran the send_nobody handler and no handler that sends to an
\* existing actor
OnlyNobodySends ==
    /\ l3_last.op = "l3_tick"
    /\ \E k \in DOMAIN l3_last.handled :
           l3_last.handled[k].event = "send_nobody" /\ l3_last.handled[k].handler
    /\ \A k \in DOMAIN l3_last.handled :
           ~(l3_last.handled[k].event = "send_message" /\ l3_last.handled[k].handler)

\* C17: l3_send_message to an id that no actor has returns false and
\* changes no mailbox; a handler statement that sends to a name no actor
\* has adds a message to no mailbox, the statements after it are executed
\* and the other actors are handled.
C17_UnknownTarget ==
    /\ (l3_last.op = "l3_send_message"
            /\ \A i \in DOMAIN l3_runtime.actors : l3_runtime.actors[i].id # l3_last.arg)
        => ~l3_last.ok /\ L3Contents = l3_last.pre.contents
    /\ OnlyNobodySends =>
        /\ \A i \in DOMAIN l3_last.pre.contents :
               L3Contents[i] = IF l3_last.pre.contents[i] = <<>> THEN <<>>
                               ELSE Tail(l3_last.pre.contents[i])
        /\ \A k \in DOMAIN l3_last.handled :
               (l3_last.handled[k].event = "send_nobody" /\ l3_last.handled[k].handler)
               => l3_state_get(l3_runtime.actors[l3_last.handled[k].actor].state,
                               "sent_count") = <<"2">>
        /\ AllProcessed

\* a tick whose first actor runs send_nobody and whose second actor is
\* handled after it
C17_Witness ==
    /\ OnlyNobodySends
    /\ Len(l3_last.handled) = 2
    /\ l3_last.handled[1].event = "send_nobody" /\ l3_last.handled[2].handler

\* the definition an actor was spawned from
DefOf(actor) == IF actor.name = SenderDef.name THEN SenderDef ELSE ReceiverDef

\* the last call was a tick in which actor index i ran a handler
RanHandler(i) ==
    \E k \in DOMAIN l3_last.handled :
        l3_last.handled[k].actor = i /\ l3_last.handled[k].handler

\* C24: a spawned actor owns its state: a tick leaves the state of every
\* actor that ran no handler in it as it was, also that of actors spawned
\* from the same definition as one that ran a handler; and an actor spawned
\* later starts from the definition's initial state and handlers, whatever
\* the handlers of earlier actors of that definition did, while the spawn
\* leaves the other actors' states alone.
C24_ActorOwnsState ==
    /\ l3_last.op = "l3_tick" =>
          \A i \in DOMAIN l3_runtime.actors :
              ~RanHandler(i) => l3_runtime.actors[i].state = l3_last.pre.states[i]
    /\ (l3_last.op = "l3_spawn_actor" /\ l3_last.ok) =>
          /\ l3_runtime.actors[Len(l3_runtime.actors)].state
                = DefOf(l3_runtime.actors[Len(l3_runtime.actors)]).initial_state
          /\ l3_runtime.actors[Len(l3_runtime.actors)].handlers
                = DefOf(l3_runtime.actors[Len(l3_runtime.actors)]).handlers
          /\ \A i \in DOMAIN l3_last.pre.states :
                l3_runtime.actors[i].state = l3_last.pre.states[i]

\* two Senders; a tick in which the first changed its state and the second
\* ran no handler
C24_Witness ==
    /\ l3_last.op = "l3_tick"
    /\ Len(l3_runtime.actors) = 2
    /\ l3_runtime.actors[1].name = l3_runtime.actors[2].name
    /\ RanHandler(1) /\ ~RanHandler(2)
    /\ l3_runtime.actors[1].state # l3_last.pre.states[1]
    /\ l3_runtime.actors[2].state = SenderDef.initial_state

\* a second Sender spawned after the first has changed its state
C24_WitnessSpawn ==
    /\ l3_last.op = "l3_spawn_actor"
    /\ Len(l3_runtime.actors) = 2
    /\ l3_runtime.actors[1].name = l3_runtime.actors[2].name
    /\ l3_runtime.actors[1].state # SenderDef.initial_state
    /\ l3_runtime.actors[2].state = SenderDef.initial_state

\* ------------------------------------------------------------------------
\* SpecL3Mailbox : one actor Echo and its mailbox of capacity 64.  The
\* environment sends numbered ping messages, one at a time or in a run of
\* MailboxBurst sends; Echo's ping handler sends a pong with the same data
\* to Echo itself.
\*   l3_log  the messages put into the mailbox, in the order of the calls
\*           that put them, and the messages handled, in the order handled
\* ------------------------------------------------------------------------

EchoDef ==
    [name |-> "Echo", role |-> "Relay to itself",
     initial_state |-> [keys |-> <<"count">>, values |-> <<"0">>],
     handlers |-> <<[event_name |-> "ping", body_code |-> "Echo -> pong"],
                    [event_name |-> "pong", body_code |-> "state.count -> state.count + 1"]>>]

\* event and data of handled entries
Messages(handled) ==
    [k \in 1 .. Len(handled) |-> [event |-> handled[k].event, data |-> handled[k].data]]

\* the pongs that the ping handlers of a tick send, by the text of EchoDef
Pongs(handled) ==
    IF handled # <<>> /\ handled[1].event = "ping"
    THEN <<[event |-> "pong", data |-> handled[1].data]>>
    ELSE <<>>

\* the length of the run of sends: two less than the mailbox holds
MailboxBurst == L3QueueCapacity - 2

\* n pings whose data are prefix1, prefix2, ...
Pings(prefix, first, n) ==
    [k \in 1 .. n |-> [event |-> "ping", data |-> prefix \o IntText(first + k - 1)]]

\* l3_send_message of each of the pings, from the k-th on, to actor 1
RECURSIVE SendFrom(_, _, _)
SendFrom(res, pings, k) ==
    IF k > Len(pings) THEN res
    ELSE LET sent == l3_send_message(res.runtime, 1, pings[k].event, <<pings[k].data>>)
         IN  IF sent.ok THEN SendFrom([res EXCEPT !.runtime = sent.runtime], pings, k + 1)
             ELSE SendFrom([ok |-> FALSE, runtime |-> sent.runtime], pings, k + 1)

\* the sends of these pings in a row
MailboxSends(pings) ==
    /\ L3SendCall(1, SendFrom([ok |-> TRUE, runtime |-> l3_runtime], pings, 1))
    /\ l3_log' = [l3_log EXCEPT !.enqueued = @ \o pings]
    /\ UNCHANGED l3_ticks

MailboxSpawn ==
    /\ l3_runtime.actors = <<>>
    /\ L3SpawnCall(l3_spawn_actor(l3_runtime, EchoDef))
    /\ UNCHANGED <<l3_sent, l3_ticks, l3_log>>

\* one l3_send_message
MailboxSend ==
    /\ l3_runtime.actors # <<>>
    /\ l3_sent < MaxMailboxSends
    /\ MailboxSends(Pings("", l3_sent + 1, 1))
    /\ l3_sent' = l3_sent + 1

\* the run of MailboxBurst sends, once
MailboxSendBurst ==
    /\ l3_runtime.actors # <<>>
    /\ \A k \in DOMAIN l3_log.enqueued : l3_log.enqueued[k].data # "b1"
    /\ MailboxSends(Pings("b", 1, MailboxBurst))
    /\ UNCHANGED l3_sent

MailboxTick ==
    /\ l3_ticks < MaxMailboxTicks
    /\ \E t \in {l3_tick(l3_runtime)} : L3Call("l3_tick", 0, TRUE, t)
    /\ l3_ticks' = l3_ticks + 1
    /\ l3_log' = [enqueued |-> l3_log.enqueued \o Pongs(l3_last'.handled),
                  handled |-> l3_log.handled \o Messages(l3_last'.handled)]
    /\ UNCHANGED l3_sent

MailboxNext == MailboxSpawn \/ MailboxSend \/ MailboxSendBurst \/ MailboxTick

\* C13: the messages handled so far followed by the messages in the
\* mailbox are the messages enqueued, in the order enqueued (by
\* l3_send_message or by a handler): none lost, duplicated or reordered;
\* and a tick handles one message when the mailbox is not empty.
C13_MailboxFifo ==
    l3_runtime.actors # <<>> =>
        /\ l3_log.handled \o L3Contents[1] = l3_log.enqueued
        /\ l3_last.op = "l3_tick" =>
               Len(l3_last.handled) = IF l3_last.pre.contents[1] # <<>> THEN 1 ELSE 0

\* the mailbox has grown beyond 64 slots while its head was at slot 1, its
\* tail having wrapped around to slot 0, and a message was handled after
\* the growth
C13_Witness ==
    /\ l3_runtime.actors # <<>>
    /\ l3_runtime.message_queues[1].capacity = 2 * L3QueueCapacity
    /\ l3_runtime.message_queues[1].head = 1
    /\ Len(l3_log.handled) = 2

\* ------------------------------------------------------------------------
\* SpecL3Loop : one actor Spinner whose spin handler is a while loop with
\* the condition true and a log statement as body.  As in TEST 2 of
\* test_control_flow_c.c the message that starts the loop is the first one
\* the actor is sent; note and unknown messages may follow it.
\* ------------------------------------------------------------------------

SpinnerDef ==
    [name |-> "Spinner", role |-> "Test while loops",
     initial_state |-> [keys |-> <<"notes">>, values |-> <<"0">>],
     handlers |-> <<[event_name |-> "spin", body_code |-> "while true\nlog \"Spinning\""],
                    [event_name |-> "note", body_code |-> "state.notes -> state.notes + 1"]>>]

LoopSpawn ==
    /\ l3_runtime.actors = <<>>
    /\ L3SpawnCall(l3_spawn_actor(l3_runtime, SpinnerDef))
    /\ UNCHANGED <<l3_sent, l3_ticks, l3_log>>

LoopSendSpin ==
    /\ l3_runtime.actors # <<>>
    /\ l3_sent = 0
    /\ L3SendCall(1, l3_send_message(l3_runtime, 1, "spin", NULL))
    /\ l3_sent' = 1
    /\ UNCHANGED <<l3_ticks, l3_log>>

LoopSend ==
    /\ 0 < l3_sent /\ l3_sent < MaxLoopSends
    /\ \E event \in {"note", "unknown"} :
        L3SendCall(1, l3_send_message(l3_runtime, 1, event, NULL))
    /\ l3_sent' = l3_sent + 1
    /\ UNCHANGED <<l3_ticks, l3_log>>

LoopNext == LoopSpawn \/ LoopSendSpin \/ LoopSend \/ L3Tick

\* the last call was a tick that ran the spin handler
SpinHandled ==
    /\ l3_last.op = "l3_tick"
    /\ l3_last.handled # <<>>
    /\ l3_last.handled[1].event = "spin"

\* C15: a tick that runs the handler whose while condition is always true
\* returns after the body has been executed exactly 10000 times: the body's
\* log statement has printed 10000 lines, the message is gone from the
\* mailbox and the actor's state is as before.
C15_WhileCapped ==
    SpinHandled =>
        /\ l3_last.logged = L3MaxIterations
        /\ L3Contents[1] = Tail(l3_last.pre.contents[1])
        /\ l3_runtime.actors[1].state = l3_last.pre.states[1]

\* a tick has run the capped loop while a further message was waiting
C15_Witness ==
    /\ SpinHandled
    /\ l3_last.logged = L3MaxIterations
    /\ L3Contents[1] # <<>>

\* ------------------------------------------------------------------------
\* l3_turchin.c : l3_parse_actor.
\*   p = [name, role, initial_state, handlers, mode, current, line]; current
\*   is NULL or the handler being collected; name and role are "" until
\*   their line is read
\* ------------------------------------------------------------------------

\* the handler being collected, if any, joins def->handlers
SaveHandler(p) ==
    IF p.current = NULL THEN p
    ELSE [p EXCEPT !.handlers = Append(@, p.current[1])]

\* the value of a state line: a quoted string of more than one character
\* loses its first and last character
ParseValue(value) ==
    IF Ch(value, 1) \in {"\"", "'"} /\ Len(value) > 1
    THEN l3_substring(value, 1, Len(value) - 2)
    ELSE value

\* a line of the state section: key, separator ("->" first, else " is "), value
ParseState(p, trimmed, sep_pos, sep_len) ==
    [p EXCEPT !.initial_state =
        l3_state_set(@, l3_trim(SubSeq(trimmed, 1, sep_pos - 1)),
                     ParseValue(l3_trim(From(trimmed, sep_pos + sep_len))))]

\* text without the quotes around it, if it starts with one
Unquoted(text) ==
    IF Ch(text, 1) \in {"\"", "'"} THEN l3_substring(text, 1, Len(text) - 2) ELSE text

\* a line of a handler body joins the body, after a newline if the body
\* already holds a line
AppendBody(p, trimmed) ==
    [p EXCEPT !.current[1].body_code =
        IF @ = "" THEN trimmed ELSE @ \o "\n" \o trimmed]

\* the body of the loop of l3_parse_actor for one line
ParseLine(p, trimmed) ==
    IF trimmed = "" \/ l3_starts_with(trimmed, "//") THEN p
    ELSE IF l3_starts_with(trimmed, "actor ")
    THEN [p EXCEPT !.name = l3_trim(l3_substring(trimmed, 6, Len(trimmed) - 6))]
    ELSE IF l3_starts_with(trimmed, "role is ")
    THEN [p EXCEPT !.role = Unquoted(l3_trim(l3_substring(trimmed, 8, Len(trimmed) - 8)))]
    ELSE IF trimmed = "state has" THEN [p EXCEPT !.mode = "MODE_STATE"]
    ELSE IF trimmed = "handlers"
    THEN [SaveHandler(p) EXCEPT !.mode = "MODE_HANDLERS", !.current = NULL]
    ELSE IF p.mode = "MODE_STATE" /\ StrStr(trimmed, "->") # 0
    THEN ParseState(p, trimmed, StrStr(trimmed, "->"), 2)
    ELSE IF p.mode = "MODE_STATE" /\ StrStr(trimmed, " is ") # 0
    THEN ParseState(p, trimmed, StrStr(trimmed, " is "), 4)
    ELSE IF l3_starts_with(trimmed, "on ")
    THEN [SaveHandler(p) EXCEPT !.current =
             <<[event_name |-> l3_trim(l3_substring(trimmed, 3, Len(trimmed) - 3)),
                body_code |-> ""]>>]
    ELSE IF p.mode = "MODE_HANDLERS" /\ p.current # NULL THEN AppendBody(p, trimmed)
    ELSE p

\* the loop of l3_parse_actor over the lines that strtok yields; p.line is
\* the position of the next one
RECURSIVE ParseFrom(_, _)
ParseFrom(p, lines) ==
    IF p.line > Len(lines) THEN p
    ELSE ParseFrom([ParseLine(p, l3_trim(lines[p.line])) EXCEPT !.line = @ + 1], lines)

\* the definition that the loop leaves, with its last handler saved
ParsedDef(p) ==
    [name |-> p.name, role |-> p.role, initial_state |-> p.initial_state,
     handlers |-> p.handlers]

\* l3_parse_actor
l3_parse_actor(turchin_code) ==
    ParsedDef(SaveHandler(ParseFrom(
        [name |-> "", role |-> "", initial_state |-> l3_state_create,
         handlers |-> <<>>, mode |-> "MODE_NONE", current |-> NULL, line |-> 1],
        SplitLines(turchin_code))))

\* ------------------------------------------------------------------------
\* SpecL3Script : actors parsed from ScriptCode by l3_parse_actor, driven by
\* l3_spawn_actor, l3_send_message and l3_tick.
\* ------------------------------------------------------------------------

MaxScriptActors == 2

MaxScriptSends == 2

\* the source text of the actor, indented as in the tests
ScriptCode ==
    "actor Script\n"
    \o "role is \"Run statements\"\n"
    \o "\n"
    \o "state has\n"
    \o "    result -> none\n"
    \o "    marked -> 0\n"
    \o "    seen -> 0\n"
    \o "    count -> 0\n"
    \o "\n"
    \o "handlers\n"
    \o "\n"
    \o "on set_local\n"
    \o "    let x -> 5\n"
    \o "    state.marked -> x\n"
    \o "\n"
    \o "on read_local\n"
    \o "    state.seen -> x\n"
    \o "\n"
    \o "on eq_same\n"
    \o "    if \"abc\" == \"abc\"\n"
    \o "        state.result -> eq_same\n"
    \o "\n"
    \o "on eq_diff\n"
    \o "    if \"abc\" == \"def\"\n"
    \o "        state.result -> eq_diff\n"
    \o "\n"
    \o "on ne_same\n"
    \o "    if \"abc\" != \"abc\"\n"
    \o "        state.result -> ne_same\n"
    \o "\n"
    \o "on ne_diff\n"
    \o "    if \"abc\" != \"def\"\n"
    \o "        state.result -> ne_diff\n"
    \o "\n"
    \o "on assign_eq\n"
    \o "    state.count = 1\n"
    \o "    let y = 7\n"
    \o "    state.seen -> y\n"
    \o "\n"
    \o "on guarded\n"
    \o "    if state.marked > 4\n"
    \o "        state.result -> inside\n"
    \o "    state.result -> after\n"
    \o "\n"
    \o "on relay\n"
    \o "    self -> note\n"
    \o "\n"
    \o "on note\n"
    \o "    state.result -> noted\n"

ScriptDef == l3_parse_actor(ScriptCode)

\* the events the environment sends
ScriptEvents ==
    {"set_local", "read_local", "eq_same", "eq_diff", "ne_same", "ne_diff",
     "assign_eq", "guarded", "relay"}

ScriptSpawn ==
    /\ Len(l3_runtime.actors) < MaxScriptActors
    /\ L3SpawnCall(l3_spawn_actor(l3_runtime, ScriptDef))
    /\ UNCHANGED <<l3_sent, l3_ticks, l3_log>>

ScriptSend ==
    /\ l3_sent < MaxScriptSends
    /\ \E actor_id \in 1 .. Len(l3_runtime.actors), event \in ScriptEvents :
        L3SendCall(actor_id, l3_send_message(l3_runtime, actor_id, event, NULL))
    /\ l3_sent' = l3_sent + 1
    /\ UNCHANGED <<l3_ticks, l3_log>>

ScriptNext == ScriptSpawn \/ ScriptSend \/ L3Tick

\* the last call was a tick in which actor index i ran its handler of event
Ran(i, event) ==
    /\ l3_last.op = "l3_tick"
    /\ \E k \in DOMAIN l3_last.handled :
        /\ l3_last.handled[k].actor = i
        /\ l3_last.handled[k].event = event
        /\ l3_last.handled[k].handler

\* the value of a state key of actor index i: now, and before the last call
Now(i, key) == l3_state_get(l3_runtime.actors[i].state, key)

Before(i, key) == l3_state_get(l3_last.pre.states[i], key)

\* C25: every handler invocation starts without locals: the local x that
\* set_local binds (and stores as marked = 5 while it runs) is undefined
\* when read_local runs, in the same or in another actor, so that seen
\* becomes the text x; and the keys of an actor's state are never other
\* than those of the definition.
C25_LocalsScoped ==
    \A i \in DOMAIN l3_runtime.actors :
        /\ l3_runtime.actors[i].state.keys = ScriptDef.initial_state.keys
        /\ Ran(i, "set_local") => Now(i, "marked") = <<"5">>
        /\ Ran(i, "read_local") => Now(i, "seen") = <<"x">>

\* read_local handled by an actor that has handled set_local before
C25_Witness ==
    /\ Len(l3_runtime.actors) >= 1
    /\ Ran(1, "read_local")
    /\ Before(1, "marked") = <<"5">>
    /\ Now(1, "seen") = <<"x">>

\* set_local and read_local handled by two actors in one tick
C25_WitnessOther ==
    /\ Len(l3_runtime.actors) = 2
    /\ Ran(1, "set_local")
    /\ Ran(2, "read_local")
    /\ Now(2, "seen") = <<"x">>

\* C26: for operands that are not numbers, == is true exactly when the two
\* strings are equal and != exactly when they differ: the body of the if
\* runs in eq_same and ne_diff, and does not run in eq_diff and ne_same.
C26_StringComparison ==
    \A i \in DOMAIN l3_runtime.actors :
        /\ Ran(i, "eq_same") => Now(i, "result") = <<"eq_same">>
        /\ Ran(i, "ne_diff") => Now(i, "result") = <<"ne_diff">>
        /\ Ran(i, "eq_diff") => Now(i, "result") = Before(i, "result")
        /\ Ran(i, "ne_same") => Now(i, "result") = Before(i, "result")

\* C27: the assignment written with = has the effect of the one written
\* with ->: after assign_eq the key count holds 1, and let y = 7 has bound
\* the local y, so that seen holds 7.
C27_EqualsAssigns ==
    \A i \in DOMAIN l3_runtime.actors :
        Ran(i, "assign_eq") =>
            /\ Now(i, "count") = <<"1">>
            /\ Now(i, "seen") = <<"7">>

\* C28: for an actor built by l3_parse_actor, the statement that follows an
\* if block at the indentation of the if runs once whether or not the
\* condition holds: after guarded, result is "after".
C28_StatementAfterBlock ==
    \A i \in DOMAIN l3_runtime.actors :
        Ran(i, "guarded") => Now(i, "result") = <<"after">>

\* C29: a handler that sends an event to self enqueues it at the tail of
\* its own mailbox: after relay, the actor's mailbox is what it held behind
\* the relay message, followed by a note message.
C29_SelfSendEnqueues ==
    \A i \in DOMAIN l3_runtime.actors :
        Ran(i, "relay") =>
            /\ Len(L3Contents[i]) = Len(l3_last.pre.contents[i])
            /\ L3Contents[i][Len(L3Contents[i])].event = "note"

\* ------------------------------------------------------------------------
\* SpecL3For : Counter actors parsed from ForCode(s, e), whose loop handler
\* runs a for loop from s to e.
\* ------------------------------------------------------------------------

MaxFor == 2

MaxForActors == 1

MaxForSends == 2

\* the bounds of the loops
ForRange == -1 .. MaxFor

\* the source text of a Counter as in test_control_flow_c.c; trace starts
\* from 0 and takes the value of the loop variable as its next decimal
\* digit, count counts the executions of the body
ForCode(s, e) ==
    "actor Counter\n"
    \o "state has\n"
    \o "    from -> " \o IntText(s) \o "\n"
    \o "    to -> " \o IntText(e) \o "\n"
    \o "    trace -> 0\n"
    \o "    count -> 0\n"
    \o "handlers\n"
    \o "on loop\n"
    \o "    state.trace -> 0\n"
    \o "    for v in state.from to state.to\n"
    \o "        state.trace -> state.trace * 10\n"
    \o "        state.trace -> state.trace + v\n"
    \o "        state.count -> state.count + 1\n"

ForSpawn ==
    /\ Len(l3_runtime.actors) < MaxForActors
    /\ \E s \in ForRange, e \in ForRange :
        L3SpawnCall(l3_spawn_actor(l3_runtime, l3_parse_actor(ForCode(s, e))))
    /\ UNCHANGED <<l3_sent, l3_ticks, l3_log>>

ForSend ==
    /\ l3_sent < MaxForSends
    /\ \E actor_id \in 1 .. Len(l3_runtime.actors) :
        L3SendCall(actor_id, l3_send_message(l3_runtime, actor_id, "loop", NULL))
    /\ l3_sent' = l3_sent + 1
    /\ UNCHANGED <<l3_ticks, l3_log>>

ForNext == ForSpawn \/ ForSend \/ L3Tick

\* trace after the body has run for s, s + 1, ..., e in this order
RECURSIVE TraceOf(_, _, _)
TraceOf(s, e, trace) ==
    IF s > e THEN trace ELSE TraceOf(s + 1, e, trace * 10 + s)

\* the integer a state key of actor index i holds now, and held before
NowInt(i, key) == l3_atoi(Now(i, key)[1])

BeforeInt(i, key) == l3_atoi(Before(i, key)[1])

\* C30: `for v in s to e` runs its body once for each integer from s to e,
\* in increasing order, with v bound to it, and not at all when s > e: the
\* handler leaves count raised by e - s + 1 (by 0 when s > e) and in trace
\* the digits s, s + 1, ..., e.
C30_ForInclusive ==
    \A i \in DOMAIN l3_runtime.actors :
        Ran(i, "loop") =>
            /\ NowInt(i, "count") = BeforeInt(i, "count")
                 + (IF BeforeInt(i, "from") > BeforeInt(i, "to") THEN 0
                    ELSE BeforeInt(i, "to") - BeforeInt(i, "from") + 1)
            /\ NowInt(i, "trace")
                 = TraceOf(BeforeInt(i, "from"), BeforeInt(i, "to"), 0)

\* the loop from 0 to 2 has run three times, with v = 0, 1, 2
C30_Witness ==
    /\ Len(l3_runtime.actors) >= 1
    /\ Ran(1, "loop")
    /\ Before(1, "from") = <<"0">> /\ Before(1, "to") = <<"2">>
    /\ Before(1, "count") = <<"0">>
    /\ Now(1, "count") = <<"3">>
    /\ Now(1, "trace") = <<"12">>

\* the loop from 2 to 1 has not run its body
C30_WitnessEmpty ==
    /\ Len(l3_runtime.actors) >= 1
    /\ Ran(1, "loop")
    /\ Before(1, "from") = <<"2">> /\ Before(1, "to") = <<"1">>
    /\ Now(1, "count") = Before(1, "count")
    /\ Now(1, "trace") = <<"0">>

\* ------------------------------------------------------------------------
\* consistency_checker.c : validate_hrir_consistency.
\*   ConsistencyResult [is_consistent, error_message, operations_checked,
\*   side_effects_verified]; error_message is NULL or a one-element sequence
\* ------------------------------------------------------------------------

\* hr_ir_get_stats
hr_ir_get_stats(program) ==
    [total_cells |-> Len(program.cells),
     r_term_cells |-> Cardinality({i \in DOMAIN program.cells : program.cells[i].is_reversible}),
     d_term_cells |-> Cardinality({i \in DOMAIN program.cells : ~program.cells[i].is_reversible}),
     executed_cells |-> Cardinality({i \in DOMAIN program.cells : program.cells[i].executed})]

\* the result with is_consistent = false and this message
Inconsistent(result, message) ==
    [result EXCEPT !.is_consistent = FALSE, !.error_message = <<message>>]

\* the cell loop of validate_hrir_consistency from index i (0-based) on; a
\* cell created with arg_count = 0 has args = NULL
RECURSIVE ValidateFrom(_, _, _)
ValidateFrom(program, i, result) ==
    IF i >= Len(program.cells) THEN result
    ELSE LET cell == program.cells[i + 1]
             checked == [result EXCEPT !.operations_checked = @ + 1]
         IN  IF cell.args = NULL
             THEN Inconsistent(checked, "Missing cell data")
             ELSE IF cell.is_reversible /\ cell.inverse = NULL
             THEN Inconsistent(checked, "Reversible cell missing inverse")
             ELSE IF \E j \in DOMAIN program.cells :
                        j # i + 1 /\ program.cells[j].id = cell.id
             THEN Inconsistent(checked, "Duplicate cell ID")
             ELSE ValidateFrom(program, i + 1, checked)

\* validate_hrir_consistency
validate_hrir_consistency(program) ==
    LET result == ValidateFrom(program, 0,
                      [is_consistent |-> TRUE, error_message |-> NULL,
                       operations_checked |-> 0, side_effects_verified |-> 0])
    IN  IF result.is_consistent /\ hr_ir_get_stats(program).total_cells # Len(program.cells)
        THEN Inconsistent(result, "Statistics mismatch")
        ELSE result

\* ------------------------------------------------------------------------
\* SpecHRValidate : a program built by hr_ir_add_cell and validated.
\*   hr_result  NULL, or the result of validate_hrir_consistency on the
\*              program as it is
\* ------------------------------------------------------------------------

\* cells with and without arguments
ValidateCellInputs ==
    HRCellInputs
    \cup { hr_ir_from_send_operation("calc", selector, <<>>)[1] : selector \in {"add", "output"} }

ValidateAddCell ==
    /\ Len(hr_program.cells) < MaxHRCells
    /\ \E cell \in ValidateCellInputs :
        hr_program' = hr_ir_add_cell(hr_program, cell)
    /\ hr_result' = NULL
    /\ UNCHANGED <<minVars, ucVars, invVars, gateVars, rVars, mcVars, dVars, l3Vars, hr_runtime, hr_calls, hr_cp,
                   cc_last>>

Validate ==
    /\ hr_result' = <<validate_hrir_consistency(hr_program)>>
    /\ UNCHANGED <<minVars, ucVars, invVars, gateVars, rVars, mcVars, dVars, l3Vars, hr_program, hr_runtime,
                   hr_calls, hr_cp, cc_last>>

ValidateNext == ValidateAddCell \/ Validate

\* the program holds a cell marked reversible that has no inverse
MissingInverse ==
    \E i \in DOMAIN hr_program.cells :
        hr_program.cells[i].is_reversible /\ hr_program.cells[i].inverse = NULL

\* C20: for a program that holds a reversible cell without inverse,
\* validate_hrir_consistency returns is_consistent = false with the error
\* message "Reversible cell missing inverse".
C20_MissingInverseReported ==
    (hr_result # NULL /\ MissingInverse)
        => /\ ~hr_result[1].is_consistent
           /\ hr_result[1].error_message = <<"Reversible cell missing inverse">>

\* the ids of the cells of the program are pairwise distinct
DistinctIds ==
    \A i, j \in DOMAIN hr_program.cells :
        i # j => hr_program.cells[i].id # hr_program.cells[j].id

\* C21: validate_hrir_consistency returns is_consistent = true exactly for
\* the programs in which every reversible cell has an inverse and all ids
\* are distinct (every cell of a program has an opcode and a list of
\* operands, which may be empty); the empty program is among them.
C21_ValidExactly ==
    hr_result # NULL =>
        (hr_result[1].is_consistent <=> (~MissingInverse /\ DistinctIds))

\* ------------------------------------------------------------------------
\* consistency_checker.c : check_l1_l0_consistency.
\*   An ExpectedSideEffect is [operation, should_succeed]; its args and
\*   arg_count are never read by the checker.
\* ------------------------------------------------------------------------

\* hr_ir_is_complete
hr_ir_is_complete(s) == s.program.pc >= Len(s.program.cells)

\* the result of the cell loop: [s, result]
Stopped(s, result, message) == [s |-> s, result |-> Inconsistent(result, message)]

\* the cell loop without the step that redoes an undone reversible cell
RECURSIVE CheckFrom_noredo(_, _, _, _, _)
CheckFrom_noredo(s, expected_effects, i, effect_index, result) ==
    IF i >= Len(s.program.cells) THEN [s |-> s, result |-> result]
    ELSE LET cell == s.program.cells[i + 1]
             checked == [result EXCEPT !.operations_checked = @ + 1]
             stepped == hr_ir_step(s)
         IN  IF cell.is_reversible
             THEN IF ~stepped.ok
                  THEN Stopped(stepped.s, checked, "R-term operation failed")
                  ELSE IF ~hr_ir_undo(stepped.s).ok
                  THEN Stopped(hr_ir_undo(stepped.s).s, checked, "R-term undo failed")
                  ELSE CheckFrom_noredo(hr_ir_undo(stepped.s).s, expected_effects,
                                        i + 1, effect_index, checked)
             ELSE IF effect_index < Len(expected_effects)
             THEN IF cell.opcode = expected_effects[effect_index + 1].operation
                  THEN IF stepped.ok # expected_effects[effect_index + 1].should_succeed
                       THEN Stopped(stepped.s,
                                    [checked EXCEPT !.side_effects_verified = @ + 1],
                                    "D-term side effect mismatch")
                       ELSE CheckFrom_noredo(stepped.s, expected_effects, i + 1,
                                effect_index + 1,
                                [checked EXCEPT !.side_effects_verified = @ + 1])
                  ELSE CheckFrom_noredo(stepped.s, expected_effects, i + 1,
                                        effect_index + 1, checked)
             ELSE CheckFrom_noredo(stepped.s, expected_effects, i + 1, effect_index,
                                   checked)

\* the cell loop of check_l1_l0_consistency from cell i (0-based) on:
\* a reversible cell is stepped, undone and stepped again; an irreversible
\* cell is stepped once and takes the next expected effect, if there is one
RECURSIVE CheckFrom(_, _, _, _, _)
CheckFrom(s, expected_effects, i, effect_index, result) ==
    IF i >= Len(s.program.cells) THEN [s |-> s, result |-> result]
    ELSE LET cell == s.program.cells[i + 1]
             checked == [result EXCEPT !.operations_checked = @ + 1]
             stepped == hr_ir_step(s)
         IN  IF cell.is_reversible
             THEN IF ~stepped.ok
                  THEN Stopped(stepped.s, checked, "R-term operation failed")
                  ELSE IF ~hr_ir_undo(stepped.s).ok
                  THEN Stopped(hr_ir_undo(stepped.s).s, checked, "R-term undo failed")
                  ELSE IF ~hr_ir_step(hr_ir_undo(stepped.s).s).ok
                  THEN Stopped(hr_ir_step(hr_ir_undo(stepped.s).s).s, checked,
                               "R-term redo failed")
                  ELSE CheckFrom(hr_ir_step(hr_ir_undo(stepped.s).s).s, expected_effects,
                                 i + 1, effect_index, checked)
             ELSE IF effect_index < Len(expected_effects)
             THEN IF cell.opcode = expected_effects[effect_index + 1].operation
                  THEN IF stepped.ok # expected_effects[effect_index + 1].should_succeed
                       THEN Stopped(stepped.s,
                                    [checked EXCEPT !.side_effects_verified = @ + 1],
                                    "D-term side effect mismatch")
                       ELSE CheckFrom(stepped.s, expected_effects, i + 1,
                                effect_index + 1,
                                [checked EXCEPT !.side_effects_verified = @ + 1])
                  ELSE CheckFrom(stepped.s, expected_effects, i + 1,
                                 effect_index + 1, checked)
             ELSE CheckFrom(stepped.s, expected_effects, i + 1, effect_index, checked)

\* the end of check_l1_l0_consistency: a loop that found no failure must
\* have completed the program
CheckEnd(looped) ==
    [program |-> looped.s.program,
     result |-> IF looped.result.is_consistent /\ ~hr_ir_is_complete(looped.s)
                THEN Inconsistent(looped.result, "Program did not complete")
                ELSE looped.result]

\* check_l1_l0_consistency: runs the program on a runtime of its own and
\* returns [program, result], the program as the run left it
check_l1_l0_consistency(program, expected_effects) ==
    CheckEnd(CheckFrom([program |-> program, runtime |-> hr_ir_create_runtime],
                       expected_effects, 0, 0,
                       [is_consistent |-> TRUE, error_message |-> NULL,
                        operations_checked |-> 0, side_effects_verified |-> 0]))

\* ------------------------------------------------------------------------
\* SpecHRCheck : a program built by hr_ir_add_cell and then checked, once
\* or several times, against lists of expected side effects.
\*   cc_last  NULL, or the last call of check_l1_l0_consistency: the program
\*            before it, the expected effects and the result
\* ------------------------------------------------------------------------

MaxEffects == 2

ExpectedOperations == {"print", "write"}

ExpectedSideEffect ==
    [operation : ExpectedOperations, should_succeed : BOOLEAN]

ExpectedLists ==
    UNION { [1 .. n -> ExpectedSideEffect] : n \in 0 .. MaxEffects }

CheckCellInputs ==
    { hr_ir_from_send_operation("calc", "add", HRArgs)[1] }
    \cup { hr_ir_from_d_term_operation(op, HRArgs) : op \in ExpectedOperations }

CheckAddCell ==
    /\ Len(hr_program.cells) < MaxHRCells
    /\ cc_last = NULL
    /\ \E cell \in CheckCellInputs :
        hr_program' = hr_ir_add_cell(hr_program, cell)
    /\ UNCHANGED <<minVars, ucVars, invVars, gateVars, rVars, mcVars, dVars, l3Vars, hr_runtime, hr_calls, hr_cp,
                   hr_result, cc_last>>

Checked(expected_effects, res) ==
    /\ hr_program' = res.program
    /\ cc_last' = <<[program |-> hr_program, expected_effects |-> expected_effects,
                     result |-> res.result]>>
    /\ UNCHANGED <<minVars, ucVars, invVars, gateVars, rVars, mcVars, dVars, l3Vars, hr_runtime, hr_calls, hr_cp,
                   hr_result>>

Check ==
    \E expected_effects \in ExpectedLists :
        Checked(expected_effects, check_l1_l0_consistency(hr_program, expected_effects))

CheckNext == CheckAddCell \/ Check

\* the irreversible cells of a sequence of cells, in order
RECURSIVE DTerms(_)
DTerms(cells) ==
    IF cells = <<>> THEN <<>>
    ELSE IF Head(cells).is_reversible THEN DTerms(Tail(cells))
    ELSE <<Head(cells)>> \o DTerms(Tail(cells))

\* the expected effects name the opcodes of the irreversible cells in order,
\* each with should_succeed = true
NamesDTerms(program, expected_effects) ==
    /\ Len(expected_effects) = Len(DTerms(program.cells))
    /\ \A k \in DOMAIN expected_effects :
        /\ expected_effects[k].operation = DTerms(program.cells)[k].opcode
        /\ expected_effects[k].should_succeed

\* C22: for a program at pc = 0 and expected effects that name the opcodes
\* of its irreversible cells in order with should_succeed = true,
\* check_l1_l0_consistency returns is_consistent = true, operations_checked
\* = the number of cells and side_effects_verified = the number of
\* irreversible cells.
C22_FreshProgramConsistent ==
    (/\ cc_last # NULL
     /\ cc_last[1].program.pc = 0
     /\ NamesDTerms(cc_last[1].program, cc_last[1].expected_effects))
        => /\ cc_last[1].result.is_consistent
           /\ cc_last[1].result.operations_checked = Len(cc_last[1].program.cells)
           /\ cc_last[1].result.side_effects_verified
                = Len(DTerms(cc_last[1].program.cells))

\* reversible, reversible, irreversible checked against its one effect:
\* 3 operations checked, 1 side effect verified
C22_Witness ==
    /\ cc_last # NULL
    /\ cc_last[1].program.pc = 0
    /\ Len(cc_last[1].program.cells) = 3
    /\ cc_last[1].program.cells[1].is_reversible
    /\ cc_last[1].program.cells[2].is_reversible
    /\ ~cc_last[1].program.cells[3].is_reversible
    /\ NamesDTerms(cc_last[1].program, cc_last[1].expected_effects)
    /\ cc_last[1].result.is_consistent
    /\ cc_last[1].result.operations_checked = 3
    /\ cc_last[1].result.side_effects_verified = 1

\* the step of cell i (1-based) succeeds when the cells before it were each
\* left one step further
StepOutcome(program, i) == program.pc + (i - 1) < Len(program.cells)

\* cell i is a failure: a reversible cell whose step fails, or the k-th
\* irreversible cell when the k-th expected effect has another operation or
\* a should_succeed that differs from the outcome of the step
FailsAt(program, expected_effects, i) ==
    IF program.cells[i].is_reversible
    THEN ~StepOutcome(program, i)
    ELSE LET k == Len(DTerms(SubSeq(program.cells, 1, i)))
         IN  /\ k <= Len(expected_effects)
             /\ \/ expected_effects[k].operation # program.cells[i].opcode
                \/ expected_effects[k].should_succeed # StepOutcome(program, i)

\* the first failure is at cell i
FirstFailure(program, expected_effects, i) ==
    /\ FailsAt(program, expected_effects, i)
    /\ \A j \in 1 .. i - 1 : ~FailsAt(program, expected_effects, j)

\* C23: when a cell is a failure (an irreversible cell that does not match
\* its expected effect in operation or outcome, a reversible cell whose
\* step fails), check_l1_l0_consistency returns is_consistent = false and
\* has examined the cells up to the first failure and none after it.
C23_StopsAtFirstFailure ==
    cc_last # NULL =>
        \A i \in DOMAIN cc_last[1].program.cells :
            FirstFailure(cc_last[1].program, cc_last[1].expected_effects, i)
                => /\ ~cc_last[1].result.is_consistent
                   /\ cc_last[1].result.operations_checked = i

\* C39: the result of check_l1_l0_consistency depends only on the cells
\* of the program and on the expected effects: a second run on the same
\* program with the same list (the program being as the first run left it)
\* returns the same is_consistent, operations_checked and
\* side_effects_verified as the first.
C39_CheckRepeatable ==
    [][(/\ cc_last # NULL
        /\ cc_last' # NULL
        /\ cc_last'[1].expected_effects = cc_last[1].expected_effects)
          => /\ cc_last'[1].result.is_consistent = cc_last[1].result.is_consistent
             /\ cc_last'[1].result.operations_checked
                  = cc_last[1].result.operations_checked
             /\ cc_last'[1].result.side_effects_verified
                  = cc_last[1].result.side_effects_verified]_vars

\* ------------------------------------------------------------------------
\* Specifications
\* ------------------------------------------------------------------------

\* the state after construction of every runtime
Init ==
    /\ g_qubits = ZeroBits(GateQubits)
    /\ g_calls = <<>>
    /\ r_memory = r_runtime_init(RQubits)
    /\ r_next_cell_id = 0
    /\ r_last = [op |-> "init", arg |-> 0, ok |-> TRUE,
                 bits_changed |-> FALSE, index_changed |-> FALSE,
                 pre_qubits |-> ZeroBits(RQubits), pre_count |-> 0]
    /\ r_saved = <<>>
    /\ r_qubits_at = [k \in {0} |-> ZeroBits(RQubits)]
    /\ hr_program = hr_ir_create_program
    /\ hr_runtime = hr_ir_create_runtime
    /\ hr_calls = <<>>
    /\ hr_cp = [phase |-> "other", pc |-> 0, cells |-> <<>>]
    /\ hr_result = <<>>
    /\ cc_last = <<>>
    /\ mc_r = r_init(CoreQubits)
    /\ mc_last = [op |-> "init", args |-> <<>>, pre |-> r_init(CoreQubits), cp_clean |-> FALSE]
    /\ mc_cp = [taken |-> FALSE, c |-> 0, qubits |-> ZeroBits(CoreQubits), clean |-> FALSE]
    /\ mc_calls = 0
    /\ min_r = min_init(MinQubits)
    /\ min_pc = MinIdle
    /\ min_last = [op |-> "init", arg |-> 0, pre_count |-> 0]
    /\ uc_ast = <<>>
    /\ uc_program = NULL
    /\ inv_origin = NULL
    /\ inv_cell = NULL
    /\ inv_inverse = NULL
    /\ inv_depth = 0
    /\ mc_maybes = <<>>
    /\ d_maybes = <<>>
    /\ maybe_last = [op |-> "init", index |-> 0, value |-> FALSE, ok |-> TRUE,
                     was_resolved |-> FALSE, was_value |-> FALSE]
    /\ d_runtime = d_runtime_init(DQubits, DAncilla)
    /\ d_last = [op |-> "init", ok |-> TRUE, in_range |-> TRUE,
                 changed |-> FALSE, frame |-> TRUE]
    /\ l3_runtime = l3_runtime_init
    /\ l3_last = [op |-> "l3_runtime_init", arg |-> 0, ok |-> TRUE,
                  pre |-> Snapshot(l3_runtime_init), handled |-> <<>>, logged |-> 0]
    /\ l3_sent = 0
    /\ l3_ticks = 0
    /\ l3_log = [enqueued |-> <<>>, handled |-> <<>>]

SpecGate == Init /\ [][GateNext]_vars

SpecR == Init /\ [][RNext]_vars

SpecHR == Init /\ [][HRNext]_vars

SpecHRValidate == Init /\ [][ValidateNext]_vars

SpecHRCheck == Init /\ [][CheckNext]_vars

SpecCore == Init /\ [][CoreNext]_vars

SpecD == Init /\ [][DNext]_vars

SpecMaybe == Init /\ [][MaybeNext]_vars

SpecMinimal ==
    Init /\ [][MinNext]_vars /\ WF_vars(MinRestoreBody) /\ WF_vars(MinRestoreReturn)

SpecCompile == Init /\ [][CompileNext]_vars

SpecHRInverse == Init /\ [][InverseNext]_vars

SpecL3 == Init /\ [][L3Next]_vars

SpecL3Mailbox == Init /\ [][MailboxNext]_vars

SpecL3Loop == Init /\ [][LoopNext]_vars

SpecL3Script == Init /\ [][ScriptNext]_vars

SpecL3For == Init /\ [][ForNext]_vars

====
